---- MODULE Spec2Model ----
(***************************************************************************)
(* A model of the shift scheduler: the weekly calendar's drag controller   *)
(* (components/WeeklyCalendar.tsx), the shift form (components/            *)
(* ShiftModal.tsx), the helpers (utils/helpers.ts) and the application's   *)
(* handlers that write to the shift store (the App component).             *)
(*                                                                         *)
(* Representation.                                                         *)
(*   - A time string "HH:mm" is the pair <<HH, mm>>; the empty string is   *)
(*     <<>>.  String order on zero-padded "HH:mm" is the order on pairs.   *)
(*   - A date string "yyyy-MM-dd" is the triple <<y, m, d>>; a Date value  *)
(*     at local midnight is its day number (days since 1970-01-01).        *)
(*   - A decimal hour h (a JavaScript number) is the integer h * HourUnit, *)
(*     HourUnit = 60 * u * (u + 1) for the usable grid height u, which     *)
(*     represents every value the controller computes exactly.             *)
(*   - A duration in decimal hours rounded to two places is the integer    *)
(*     number of hundredths.                                               *)
(*   - null / undefined is None == <<>>; a present number or record x is   *)
(*     Some(x) == <<x>>.                                                   *)
(***************************************************************************)
EXTENDS Integers, Sequences, FiniteSets, TLC

VARIABLES
    \* ---- App state (the App component)
    currentUser,        \* "none" | "admin" | "staff"
    store,              \* the 'shifts' collection of the remote store
    nextDocId,          \* the next document id the store assigns
    shifts,             \* App's in-memory shift list (set by the snapshot listener)
    inflight,           \* persistence calls awaiting completion
    writesLeft,         \* persistence calls the run may still issue
    syncing,
    isModalOpen,
    editingShift,       \* None or Some(shift)
    prefilledData,      \* [date, startTime, endTime]; <<>> for an absent field
    copiedShift,        \* None or Some([employeeId, startTime, endTime])
    copiedWeekDate,     \* None or Some(day number)
    \* ---- ShiftModal state
    form,               \* [employeeId, date, startTime, endTime, error]
    \* ---- WeeklyCalendar state
    gridHeight,         \* rect.height of the grid container, in pixels
    isSelecting,
    dragDay,
    dragStartHour,
    dragCurrentHour,
    activeShiftId,
    interactionType,
    interactionOffset,
    interactionInitialHours,
    tempShift,
    \* ---- observation of the last step
    emitted,            \* the callbacks WeeklyCalendar invoked in the last step
    alerted,            \* the alert() raised in the last step, "" if none
    lastOp,             \* the handler that ran in the last step, with its argument
    \* ---- pure-function harness
    fnArgs,             \* the inputs drawn for a helper
    fnResult            \* None, or Some(value the helper returned)

appVars == <<currentUser, store, nextDocId, shifts, inflight, writesLeft, syncing,
             isModalOpen, editingShift, prefilledData, copiedShift, copiedWeekDate>>
calVars == <<gridHeight, isSelecting, dragDay, dragStartHour, dragCurrentHour, activeShiftId,
             interactionType, interactionOffset, interactionInitialHours, tempShift>>
fnVars == <<fnArgs, fnResult>>
vars == <<appVars, form, calVars, emitted, alerted, lastOp, fnVars>>

None == <<>>
Some(x) == <<x>>

NoEmission == <<>>

Min(a, b) == IF a < b THEN a ELSE b
Max(a, b) == IF a > b THEN a ELSE b

(***************************************************************************)
(* Program constants (WeeklyCalendar.tsx).                                 *)
(***************************************************************************)
START_HOUR == 8
END_HOUR == 23
TOTAL_HOURS == END_HOUR - START_HOUR
SNAP_MINUTES == 30
VERTICAL_PADDING == 12

(***************************************************************************)
(* Bounds of the model.                                                    *)
(***************************************************************************)
\* rect.height of the grid container in pixels: every row of a grid of this
\* height is a quarter hour; a grid one pixel higher has rows between minutes
GridHeight == 84
\* the highest container and the farthest pixel offset the conversion is
\* applied to
MaxPixel == 100
\* persistence calls issued in one run of the editing / the replication spec
MaxEditWrites == 1
MaxPasteWrites == 2
\* documents the store ever holds
MaxDocs == 7

UsableHeight == GridHeight - (VERTICAL_PADDING * 2)
\* units per decimal hour: exact for a grid of GridHeight or GridHeight + 1
HourUnit == 60 * UsableHeight * (UsableHeight + 1)
HalfHour == HourUnit \div 2

(***************************************************************************)
(* Time strings.                                                           *)
(***************************************************************************)
\* date-fns parse(str, 'HH:mm', new Date()).getTime(): milliseconds on the
\* reference day; NaN (here -1, with IsNaN) for a string that is no HH:mm.
IsTimeString(t) == Len(t) = 2 /\ t[1] \in 0..23 /\ t[2] \in 0..59
IsNaN(x) == x = -1
parseTime(t) == IF IsTimeString(t) THEN (t[1] * 60 + t[2]) * 60000 ELSE -1
\* JavaScript < and > on numbers: false when either side is NaN
JsLess(a, b) == ~IsNaN(a) /\ ~IsNaN(b) /\ a < b
JsGreater(a, b) == JsLess(b, a)

\* a falsy field of a Partial<Shift> (undefined or ""): employeeId is a string,
\* date and times are tuples
NoEmployee == ""
NoField == <<>>
MissingField(newShift) ==
    \/ newShift.employeeId = NoEmployee
    \/ newShift.date = NoField
    \/ newShift.startTime = NoField
    \/ newShift.endTime = NoField

\* ids: the store assigns 1, 2, ...; the form's Date.now().toString() and the
\* paste's 'temp-check' are ids no stored shift has
NowId == 0
TempCheckId == -1

(***************************************************************************)
(* helpers.ts: calculateShiftHours.  The result is in hundredths of an     *)
(* hour; toFixed(2) of diff/60 rounds to the nearest hundredth (diff * 5/3 *)
(* is never halfway).                                                      *)
(***************************************************************************)
differenceInMinutes(later, earlier) == (later - earlier) \div 60000

\* a duration cut to two decimals instead of rounded
calculateShiftHoursTruncated(start, end) ==
    LET startTime == parseTime(start)
        endTime == parseTime(end)
        diff0 == differenceInMinutes(endTime, startTime)
        diff == IF diff0 < 0 THEN diff0 + 1440 ELSE diff0
    IN  (diff * 10) \div 6

calculateShiftHours(start, end) ==
    LET startTime == parseTime(start)
        endTime == parseTime(end)
        diff0 == differenceInMinutes(endTime, startTime)
        diff == IF diff0 < 0 THEN diff0 + 1440 ELSE diff0
    IN  (diff * 10 + 3) \div 6

\* a stored shift whose hours field is the duration helper's value
Shift(id, e, d, st, en) ==
    [id |-> id, employeeId |-> e, date |-> d, startTime |-> st, endTime |-> en,
     hours |-> calculateShiftHours(st, en)]

(***************************************************************************)
(* helpers.ts: checkOverlap.                                               *)
(***************************************************************************)
checkOverlapTouching(existing, newShift) ==
    IF MissingField(newShift)
    THEN FALSE
    ELSE LET employeeShifts == {s \in existing : /\ s.employeeId = newShift.employeeId
                                                 /\ s.date = newShift.date
                                                 /\ s.id # newShift.id}
             nStart == parseTime(newShift.startTime)
             nEnd == parseTime(newShift.endTime)
         IN  \E s \in employeeShifts :
                 ~JsGreater(nStart, parseTime(s.endTime))
                 /\ ~JsLess(nEnd, parseTime(s.startTime))

checkOverlap(existing, newShift) ==
    IF MissingField(newShift)
    THEN FALSE
    ELSE LET employeeShifts == {s \in existing : /\ s.employeeId = newShift.employeeId
                                                 /\ s.date = newShift.date
                                                 /\ s.id # newShift.id}
             nStart == parseTime(newShift.startTime)
             nEnd == parseTime(newShift.endTime)
         IN  \E s \in employeeShifts :
                 LET sStart == parseTime(s.startTime)
                     sEnd == parseTime(s.endTime)
                 IN  JsLess(nStart, sEnd) /\ JsGreater(nEnd, sStart)

(***************************************************************************)
(* WeeklyCalendar.tsx: pixel <-> hour conversion.  Hours are in HourUnit    *)
(* units; Math.round(x) is floor(x + 1/2).                                 *)
(***************************************************************************)
\* hourFloat of a pixel offset, unsnapped: ((y - P) / (height - 2P)) * 15 + 8
hourFloatOfY(y, height) ==
    LET usableHeight == height - (VERTICAL_PADDING * 2)
        relativeY == y - VERTICAL_PADDING
    IN  (relativeY * TOTAL_HOURS * HourUnit) \div usableHeight + START_HOUR * HourUnit

\* a conversion that snaps but does not clamp
getHourFromYUnclamped(y, height) ==
    LET usableHeight == height - (VERTICAL_PADDING * 2)
        relativeY == y - VERTICAL_PADDING
        snapParts == 60 \div SNAP_MINUTES
        num == snapParts * (relativeY * TOTAL_HOURS + START_HOUR * usableHeight)
        rounded == (2 * num + usableHeight) \div (2 * usableHeight)
    IN  rounded * (HourUnit \div snapParts)

\* a pointer hour snapped to quarter hours
getHourFromYQuarter(y, height) ==
    LET usableHeight == height - (VERTICAL_PADDING * 2)
        relativeY == y - VERTICAL_PADDING
        snapParts == 4
        num == snapParts * (relativeY * TOTAL_HOURS + START_HOUR * usableHeight)
        rounded == (2 * num + usableHeight) \div (2 * usableHeight)
        hour == rounded * (HourUnit \div snapParts)
    IN  Max(START_HOUR * HourUnit, Min(END_HOUR * HourUnit, hour))

getHourFromY(y, height) ==
    LET usableHeight == height - (VERTICAL_PADDING * 2)
        relativeY == y - VERTICAL_PADDING
        snapParts == 60 \div SNAP_MINUTES
        \* Math.round(hourFloat * snapParts), hourFloat * snapParts = num / usableHeight
        num == snapParts * (relativeY * TOTAL_HOURS + START_HOUR * usableHeight)
        rounded == (2 * num + usableHeight) \div (2 * usableHeight)
        hour == rounded * (HourUnit \div snapParts)
    IN  Max(START_HOUR * HourUnit, Min(END_HOUR * HourUnit, hour))

formatTimeFromHour(h) ==
    LET hours == h \div HourUnit
        frac == h % HourUnit
        \* Math.round((h % 1) * 60), (h % 1) * 60 = frac * 60 / HourUnit
        mins == (2 * frac * 60 + HourUnit) \div (2 * HourUnit)
        safeHours == Min(Max(hours, 0), 23)
        safeMins == Min(Max(mins, 0), 59)
    IN  <<safeHours, safeMins>>

\* startParts[0] + startParts[1] / 60 of an "HH:mm" string
hourOfTimeString(t) == t[1] * HourUnit + (t[2] * HourUnit) \div 60

\* Number((newEnd - newStart).toFixed(2)), in hundredths
hoursToFixed2(d) == (2 * 100 * d + HourUnit) \div (2 * HourUnit)

(***************************************************************************)
(* WeeklyCalendar.tsx: the drag controller.                                *)
(***************************************************************************)
readOnly == currentUser # "admin"

\* a role check that lets every logged-in user through
mayWriteAnyUser == currentUser # "none"

\* the role check that opens saveShift, deleteShift, handlePasteShift and
\* handlePasteWeek: they go on only for the admin
mayWrite == currentUser = "admin"

AddShiftCall(d, st, en) ==
    [cb |-> "onAddShift", date |-> d, startTime |-> st, endTime |-> en, shift |-> None]
SaveShiftCall(s) ==
    [cb |-> "onSaveShift", date |-> NoField, startTime |-> NoField, endTime |-> NoField,
     shift |-> Some(s)]

\* the block of a rendered shift covers the rows from its start to its end
OnBlock(s, y) ==
    /\ IsTimeString(s.startTime) /\ IsTimeString(s.endTime)
    /\ hourOfTimeString(s.startTime) <= hourFloatOfY(y, gridHeight)
    /\ hourFloatOfY(y, gridHeight) <= hourOfTimeString(s.endTime)

\* a grid press that does not look at readOnly
handleMouseDownOnGridUnguarded(dateStr, y) ==
    /\ LET hour == getHourFromY(y, gridHeight)
       IN  /\ isSelecting' = TRUE
           /\ dragDay' = dateStr
           /\ dragStartHour' = Some(hour)
           /\ dragCurrentHour' = Some(hour)
    /\ UNCHANGED <<gridHeight, activeShiftId, interactionType, interactionOffset,
                   interactionInitialHours, tempShift>>

handleMouseDownOnGrid(dateStr, y) ==
    IF readOnly
    THEN UNCHANGED calVars
    ELSE /\ LET hour == getHourFromY(y, gridHeight)
            IN  /\ isSelecting' = TRUE
                /\ dragDay' = dateStr
                /\ dragStartHour' = Some(hour)
                /\ dragCurrentHour' = Some(hour)
         /\ UNCHANGED <<gridHeight, activeShiftId, interactionType, interactionOffset,
                        interactionInitialHours, tempShift>>

handleMouseDownOnShift(shift, type, y) ==
    IF readOnly
    THEN UNCHANGED calVars
    ELSE /\ activeShiftId' = Some(shift.id)
         /\ interactionType' = type
         /\ tempShift' = Some(shift)
         /\ LET currentHour == hourFloatOfY(y, gridHeight)
                startHour == hourOfTimeString(shift.startTime)
                endHour == hourOfTimeString(shift.endTime)
            IN  /\ interactionInitialHours' = Some([start |-> startHour, end |-> endHour])
                /\ interactionOffset' = currentHour - startHour
         /\ UNCHANGED <<gridHeight, isSelecting, dragDay, dragStartHour, dragCurrentHour>>

\* a candidate whose resized edge follows the pointer past the other edge
MovedShiftFreeResize(currentHour) ==
    LET initial == interactionInitialHours[1]
        start0 == initial.start
        end0 == initial.end
        newStart1 == CASE interactionType = "resize-top" -> currentHour
                       [] interactionType = "move" -> currentHour - interactionOffset
                       [] OTHER -> start0
        newEnd1 == CASE interactionType = "resize-bottom" -> currentHour
                     [] interactionType = "move" ->
                            (currentHour - interactionOffset) + (end0 - start0)
                     [] OTHER -> end0
        newStart == Max(START_HOUR * HourUnit, Min(END_HOUR * HourUnit - HalfHour, newStart1))
        newEnd == Max(newStart + HalfHour, Min(END_HOUR * HourUnit, newEnd1))
    IN  [tempShift[1] EXCEPT !.startTime = formatTimeFromHour(newStart),
                             !.endTime = formatTimeFromHour(newEnd),
                             !.hours = hoursToFixed2(newEnd - newStart)]

\* a move that keeps the shift's length at the edges of the window
MovedShiftRigid(currentHour) ==
    LET initial == interactionInitialHours[1]
        start0 == initial.start
        end0 == initial.end
        newStart1 == CASE interactionType = "resize-top" -> Min(currentHour, end0 - HalfHour)
                       [] interactionType = "move" -> currentHour - interactionOffset
                       [] OTHER -> start0
        newEnd1 == CASE interactionType = "resize-bottom" -> Max(currentHour, start0 + HalfHour)
                     [] interactionType = "move" ->
                            (currentHour - interactionOffset) + (end0 - start0)
                     [] OTHER -> end0
        newStart == IF interactionType = "move"
                    THEN Max(START_HOUR * HourUnit,
                             Min(END_HOUR * HourUnit - (end0 - start0), newStart1))
                    ELSE Max(START_HOUR * HourUnit,
                             Min(END_HOUR * HourUnit - HalfHour, newStart1))
        newEnd == IF interactionType = "move"
                  THEN newStart + (end0 - start0)
                  ELSE Max(newStart + HalfHour, Min(END_HOUR * HourUnit, newEnd1))
    IN  [tempShift[1] EXCEPT !.startTime = formatTimeFromHour(newStart),
                             !.endTime = formatTimeFromHour(newEnd),
                             !.hours = hoursToFixed2(newEnd - newStart)]

\* the candidate a pointer-move computes in an Interacting session
MovedShift(currentHour) ==
    LET initial == interactionInitialHours[1]
        start0 == initial.start
        end0 == initial.end
        newStart1 == CASE interactionType = "resize-top" -> Min(currentHour, end0 - HalfHour)
                       [] interactionType = "move" -> currentHour - interactionOffset
                       [] OTHER -> start0
        newEnd1 == CASE interactionType = "resize-bottom" -> Max(currentHour, start0 + HalfHour)
                     [] interactionType = "move" ->
                            (currentHour - interactionOffset) + (end0 - start0)
                     [] OTHER -> end0
        newStart == Max(START_HOUR * HourUnit, Min(END_HOUR * HourUnit - HalfHour, newStart1))
        newEnd == Max(newStart + HalfHour, Min(END_HOUR * HourUnit, newEnd1))
    IN  [tempShift[1] EXCEPT !.startTime = formatTimeFromHour(newStart),
                             !.endTime = formatTimeFromHour(newEnd),
                             !.hours = hoursToFixed2(newEnd - newStart)]

handleMouseMove(y) ==
    IF isSelecting /\ dragDay # None
    THEN /\ dragCurrentHour' = Some(getHourFromY(y, gridHeight))
         /\ UNCHANGED <<gridHeight, isSelecting, dragDay, dragStartHour, activeShiftId, interactionType,
                        interactionOffset, interactionInitialHours, tempShift>>
    ELSE IF activeShiftId # None /\ interactionType # "null"
            /\ interactionInitialHours # None /\ tempShift # None
    THEN /\ tempShift' = Some(MovedShift(getHourFromY(y, gridHeight)))
         /\ UNCHANGED <<gridHeight, isSelecting, dragDay, dragStartHour, dragCurrentHour, activeShiftId,
                        interactionType, interactionOffset, interactionInitialHours>>
    ELSE UNCHANGED calVars

\* a create-drag that needs more than half an hour
SelectingEmissionStrict ==
    IF isSelecting /\ dragDay # None /\ dragStartHour # None /\ dragCurrentHour # None
    THEN LET start == Min(dragStartHour[1], dragCurrentHour[1])
             end == Max(dragStartHour[1], dragCurrentHour[1])
         IN  IF end - start > HalfHour
             THEN <<AddShiftCall(dragDay, formatTimeFromHour(start), formatTimeFromHour(end))>>
             ELSE IF dragStartHour[1] = dragCurrentHour[1]
             THEN <<AddShiftCall(dragDay, NoField, NoField)>>
             ELSE <<>>
    ELSE <<>>

\* the callbacks handleGlobalMouseUp invokes, in order
SelectingEmission ==
    IF isSelecting /\ dragDay # None /\ dragStartHour # None /\ dragCurrentHour # None
    THEN LET start == Min(dragStartHour[1], dragCurrentHour[1])
             end == Max(dragStartHour[1], dragCurrentHour[1])
         IN  IF end - start >= HalfHour
             THEN <<AddShiftCall(dragDay, formatTimeFromHour(start), formatTimeFromHour(end))>>
             ELSE IF dragStartHour[1] = dragCurrentHour[1]
             THEN <<AddShiftCall(dragDay, NoField, NoField)>>
             ELSE <<>>
    ELSE <<>>

\* a commit decided against the hours captured at pointer-down
InteractingEmissionSnapshot ==
    IF activeShiftId # None /\ tempShift # None /\ interactionInitialHours # None
    THEN LET hasChanged ==
                 \/ hourOfTimeString(tempShift[1].startTime) # interactionInitialHours[1].start
                 \/ hourOfTimeString(tempShift[1].endTime) # interactionInitialHours[1].end
         IN  IF hasChanged THEN <<SaveShiftCall(tempShift[1])>> ELSE <<>>
    ELSE <<>>

\* a commit that sends the candidate when its shift is no longer in the list
InteractingEmissionRecreates ==
    IF activeShiftId # None /\ tempShift # None
    THEN LET found == {s \in shifts : s.id = tempShift[1].id}
         IN  IF found # {}
             THEN LET original == CHOOSE s \in found : TRUE
                      hasChanged == \/ original.startTime # tempShift[1].startTime
                                    \/ original.endTime # tempShift[1].endTime
                  IN  IF hasChanged THEN <<SaveShiftCall(tempShift[1])>> ELSE <<>>
             ELSE <<SaveShiftCall(tempShift[1])>>
    ELSE <<>>

InteractingEmission ==
    IF activeShiftId # None /\ tempShift # None
    THEN LET found == {s \in shifts : s.id = tempShift[1].id}
         IN  IF found # {}
             THEN LET original == CHOOSE s \in found : TRUE
                      hasChanged == \/ original.startTime # tempShift[1].startTime
                                    \/ original.endTime # tempShift[1].endTime
                  IN  IF hasChanged THEN <<SaveShiftCall(tempShift[1])>> ELSE <<>>
             ELSE <<>>
    ELSE <<>>

MouseUpEmission == SelectingEmission \o InteractingEmission

\* the effect that adds the window's mouseup listener runs after every render
\* whose dependencies changed, with no condition on the session; its cleanup
\* removes the previous listener in the same commit, so a listener is on the
\* window whenever the calendar is mounted
mouseupListenerAttached == TRUE

\* a pointer-up that keeps the session until the save it requested is done
SessionKeptWhileSaving ==
    IF InteractingEmission # <<>>
    THEN UNCHANGED calVars
    ELSE /\ isSelecting' = FALSE
         /\ dragDay' = None
         /\ dragStartHour' = None
         /\ dragCurrentHour' = None
         /\ activeShiftId' = None
         /\ interactionType' = "null"
         /\ interactionInitialHours' = None
         /\ tempShift' = None
         /\ UNCHANGED <<gridHeight, interactionOffset>>

\* the state handleGlobalMouseUp leaves: every session field but the offset
SessionCleared ==
    /\ isSelecting' = FALSE
    /\ dragDay' = None
    /\ dragStartHour' = None
    /\ dragCurrentHour' = None
    /\ activeShiftId' = None
    /\ interactionType' = "null"
    /\ interactionInitialHours' = None
    /\ tempShift' = None
    /\ UNCHANGED <<gridHeight, interactionOffset>>

(***************************************************************************)
(* helpers.ts: snapTo30Min.  Math.round(mins / 30) is floor(mins/30 + 1/2). *)
(***************************************************************************)
\* a snap that carries past 23 without the cap
snapTo30MinUncapped(timeStr) ==
    LET hours0 == timeStr[1]
        mins0 == ((2 * timeStr[2] + 30) \div 60) * 30
        mins == IF mins0 = 60 THEN 0 ELSE mins0
        hours == IF mins0 = 60 THEN hours0 + 1 ELSE hours0
    IN  <<hours, mins>>

snapTo30Min(timeStr) ==
    LET hours0 == timeStr[1]
        mins0 == ((2 * timeStr[2] + 30) \div 60) * 30
        mins == IF mins0 = 60 THEN 0 ELSE mins0
        hours1 == IF mins0 = 60 THEN hours0 + 1 ELSE hours0
        hours == IF hours1 = 24 THEN 23 ELSE hours1
    IN  <<hours, mins>>

(***************************************************************************)
(* Dates (date-fns).  parseISO of "yyyy-MM-dd" is local midnight of that   *)
(* day, here its day number; format(d, 'yyyy-MM-dd') is the inverse.       *)
(***************************************************************************)
IsDateString(d) == Len(d) = 3 /\ d[2] \in 1..12 /\ d[3] \in 1..31

parseISO(d) ==
    LET y == IF d[2] <= 2 THEN d[1] - 1 ELSE d[1]
        era == y \div 400
        yoe == y - era * 400
        mp == IF d[2] > 2 THEN d[2] - 3 ELSE d[2] + 9
        doy == (153 * mp + 2) \div 5 + d[3] - 1
        doe == yoe * 365 + yoe \div 4 - yoe \div 100 + doy
    IN  era * 146097 + doe - 719468

formatDate(n) ==
    LET z == n + 719468
        era == z \div 146097
        doe == z - era * 146097
        yoe == (doe - doe \div 1460 + doe \div 36524 - doe \div 146096) \div 365
        doy == doe - (365 * yoe + yoe \div 4 - yoe \div 100)
        mp == (5 * doy + 2) \div 153
        d == doy - (153 * mp + 2) \div 5 + 1
        m == IF mp < 10 THEN mp + 3 ELSE mp - 9
        y == yoe + era * 400 + (IF m <= 2 THEN 1 ELSE 0)
    IN  <<y, m, d>>

\* Date.getDay(): 0 = Sunday; 1970-01-01 was a Thursday
getDay(n) == (n + 4) % 7
\* startOfWeek(date, { weekStartsOn: 0 })
startOfWeek(n) == n - getDay(n)
isSameWeek(a, b) == startOfWeek(a) = startOfWeek(b)
addDays(n, k) == n + k
differenceInDays(later, earlier) == later - earlier

(***************************************************************************)
(* The App component: persistence calls.  A call is issued by a handler    *)
(* and completes later, succeeding or failing; the handler's finally block *)
(* runs at completion.                                                     *)
(***************************************************************************)
EmptyPrefill == [date |-> NoField, startTime |-> NoField, endTime |-> NoField]
UnmountedForm == [employeeId |-> NoEmployee, date |-> NoField,
                  startTime |-> <<9, 0>>, endTime |-> <<17, 0>>, error |-> ""]

\* the data field of a call that carries none
NoShiftData == [id |-> NowId, employeeId |-> NoEmployee, date |-> NoField,
                startTime |-> NoField, endTime |-> NoField, hours |-> 0]

Call(kind, origin, shift, docs) ==
    [n |-> writesLeft, kind |-> kind, origin |-> origin, data |-> shift, docs |-> docs]

\* documents the pending calls will add
PendingCreates ==
    LET adds == {r \in inflight : r.kind = "addDoc"}
        batches == {r \in inflight : r.kind = "batch"}
        RECURSIVE Total(_)
        Total(B) == IF B = {} THEN 0
                    ELSE LET r == CHOOSE x \in B : TRUE
                         IN  Cardinality(r.docs) + Total(B \ {r})
    IN  Cardinality(adds) + Total(batches)

\* the bounds of a run: calls issued, documents ever created
CanIssue(creates) ==
    /\ writesLeft > 0
    /\ (nextDocId - 1) + PendingCreates + creates <= MaxDocs

\* saveShift up to its await: the call it issues
saveShiftCall(shift) ==
    IF \E s \in shifts : s.id = shift.id
    THEN Call("setDoc", "saveShift", shift, {})
    ELSE Call("addDoc", "saveShift", shift, {})

\* a paste-week that copies every live shift, whatever its week
PasteWeekDocsWholeList(live, copied, targetWeekStart) ==
    LET daysDiff == differenceInDays(startOfWeek(targetWeekStart), startOfWeek(copied))
    IN  { [src |-> s.id,
           data |-> [id |-> NowId, employeeId |-> s.employeeId,
                     date |-> formatDate(addDays(parseISO(s.date), daysDiff)),
                     startTime |-> s.startTime, endTime |-> s.endTime,
                     hours |-> s.hours]] : s \in live }

\* the shifts handlePasteWeek puts in its batch, each with the id of its source
PasteWeekDocs(live, copied, targetWeekStart) ==
    LET sourceStart == startOfWeek(copied)
        targetStart == startOfWeek(targetWeekStart)
        shiftsToCopy == {s \in live : IsDateString(s.date)
                                      /\ isSameWeek(parseISO(s.date), sourceStart)}
        daysDiff == differenceInDays(targetStart, sourceStart)
    IN  { [src |-> s.id,
           data |-> [id |-> NowId, employeeId |-> s.employeeId,
                     date |-> formatDate(addDays(parseISO(s.date), daysDiff)),
                     startTime |-> s.startTime, endTime |-> s.endTime,
                     hours |-> s.hours]] : s \in shiftsToCopy }

\* a batch that commits only its first document
StoreAfterPartial(r) ==
    CASE r.kind = "setDoc" ->
            {d \in store : d.id # r.data.id} \cup {r.data}
      [] r.kind = "addDoc" ->
            store \cup {[r.data EXCEPT !.id = nextDocId]}
      [] r.kind = "deleteDoc" ->
            {d \in store : d.id # r.data.id}
      [] r.kind = "batch" ->
            store \cup { [x.data EXCEPT !.id = nextDocId]
                         : x \in {z \in r.docs : \A w \in r.docs : z.src <= w.src} }

\* the store after a call succeeds: setDoc merges into (or creates) the
\* document, addDoc and a batch create documents under fresh ids
StoreAfter(r) ==
    CASE r.kind = "setDoc" ->
            {d \in store : d.id # r.data.id} \cup {r.data}
      [] r.kind = "addDoc" ->
            store \cup {[r.data EXCEPT !.id = nextDocId]}
      [] r.kind = "deleteDoc" ->
            {d \in store : d.id # r.data.id}
      [] r.kind = "batch" ->
            store \cup { [x.data EXCEPT !.id =
                             nextDocId + Cardinality({z \in r.docs : z.src < x.src})]
                         : x \in r.docs }

NextDocIdAfter(r) ==
    CASE r.kind = "addDoc" -> nextDocId + 1
      [] r.kind = "batch" -> nextDocId + Cardinality(r.docs)
      [] OTHER -> nextDocId

\* the finally blocks
Finally(r) ==
    /\ syncing' = FALSE
    /\ IF r.origin = "saveShift"
       THEN /\ isModalOpen' = FALSE /\ editingShift' = None
            /\ prefilledData' = EmptyPrefill /\ form' = UnmountedForm
       ELSE IF r.origin = "deleteShift"
       THEN /\ isModalOpen' = FALSE /\ editingShift' = None
            /\ form' = UnmountedForm /\ UNCHANGED prefilledData
       ELSE UNCHANGED <<isModalOpen, editingShift, prefilledData, form>>

\* a write completion that uses the single-shift template up
WriteSucceedsSingleUse(r) ==
    /\ lastOp' = <<"WriteSucceeds", None>>
    /\ r \in inflight
    /\ inflight' = inflight \ {r}
    /\ store' = StoreAfter(r)
    /\ nextDocId' = NextDocIdAfter(r)
    /\ Finally(r)
    /\ emitted' = NoEmission /\ alerted' = ""
    /\ copiedShift' = IF r.origin = "handlePasteShift" THEN None ELSE copiedShift
    /\ UNCHANGED <<currentUser, shifts, writesLeft, copiedWeekDate>>
    /\ UNCHANGED <<calVars, fnVars>>

WriteSucceeds(r) ==
    /\ lastOp' = <<"WriteSucceeds", None>>
    /\ r \in inflight
    /\ inflight' = inflight \ {r}
    /\ store' = StoreAfter(r)
    /\ nextDocId' = NextDocIdAfter(r)
    /\ Finally(r)
    /\ emitted' = NoEmission /\ alerted' = ""
    /\ UNCHANGED <<currentUser, shifts, writesLeft, copiedShift, copiedWeekDate>>
    /\ UNCHANGED <<calVars, fnVars>>

\* a failed call that is issued again
WriteFailsRetried(r) ==
    /\ lastOp' = <<"WriteFails", None>>
    /\ r \in inflight
    /\ inflight' = inflight
    /\ Finally(r)
    /\ emitted' = NoEmission
    /\ alerted' = IF r.origin = "handlePasteWeek" THEN "Failed to paste week" ELSE ""
    /\ UNCHANGED <<currentUser, store, nextDocId, shifts, writesLeft, copiedShift,
                   copiedWeekDate>>
    /\ UNCHANGED <<calVars, fnVars>>

\* a failed call that leaves the form as it is
WriteFailsFormKept(r) ==
    /\ lastOp' = <<"WriteFails", None>>
    /\ r \in inflight
    /\ inflight' = inflight \ {r}
    /\ syncing' = FALSE
    /\ emitted' = NoEmission
    /\ alerted' = IF r.origin = "handlePasteWeek" THEN "Failed to paste week" ELSE ""
    /\ UNCHANGED <<currentUser, store, nextDocId, shifts, writesLeft, copiedShift,
                   copiedWeekDate, isModalOpen, editingShift, prefilledData, form>>
    /\ UNCHANGED <<calVars, fnVars>>

WriteFails(r) ==
    /\ lastOp' = <<"WriteFails", None>>
    /\ r \in inflight
    /\ inflight' = inflight \ {r}
    /\ Finally(r)
    /\ emitted' = NoEmission
    /\ alerted' = IF r.origin = "handlePasteWeek" THEN "Failed to paste week" ELSE ""
    /\ UNCHANGED <<currentUser, store, nextDocId, shifts, writesLeft, copiedShift,
                   copiedWeekDate>>
    /\ UNCHANGED <<calVars, fnVars>>

\* the shifts listener: the in-memory list becomes the store's documents
ShiftsSnapshot ==
    /\ lastOp' = <<"ShiftsSnapshot", None>>
    /\ shifts # store
    /\ shifts' = store
    /\ emitted' = NoEmission /\ alerted' = ""
    /\ UNCHANGED <<currentUser, store, nextDocId, inflight, writesLeft, syncing,
                   isModalOpen, editingShift, prefilledData, copiedShift, copiedWeekDate>>
    /\ UNCHANGED <<form, calVars, fnVars>>

Login(role) ==
    /\ lastOp' = <<"Login", None>>
    /\ currentUser = "none"
    /\ currentUser' = role
    /\ emitted' = NoEmission /\ alerted' = ""
    /\ UNCHANGED <<store, nextDocId, shifts, inflight, writesLeft, syncing, isModalOpen,
                   editingShift, prefilledData, copiedShift, copiedWeekDate>>
    /\ UNCHANGED <<form, calVars, fnVars>>

(***************************************************************************)
(* The calendar alone: its props are the environment, the callbacks it     *)
(* invokes are recorded in emitted.                                        *)
(***************************************************************************)
AppIdle ==
    /\ currentUser = "none" /\ store = {} /\ nextDocId = 1 /\ shifts = {}
    /\ inflight = {} /\ writesLeft = 0 /\ syncing = FALSE
    /\ isModalOpen = FALSE /\ editingShift = None
    /\ prefilledData = [date |-> NoField, startTime |-> NoField, endTime |-> NoField]
    /\ copiedShift = None /\ copiedWeekDate = None

FormUnmounted ==
    form = [employeeId |-> NoEmployee, date |-> NoField,
            startTime |-> <<9, 0>>, endTime |-> <<17, 0>>, error |-> ""]

CalIdle ==
    /\ isSelecting = FALSE /\ dragDay = None /\ dragStartHour = None
    /\ dragCurrentHour = None /\ activeShiftId = None /\ interactionType = "null"
    /\ interactionOffset = 0 /\ interactionInitialHours = None /\ tempShift = None

InteractionTypes == {"move", "resize-top", "resize-bottom"}

Jan09 == <<2024, 1, 9>>
Jan10 == <<2024, 1, 10>>

\* pixel rows the pointer visits: above the grid, rows on and between the
\* half-hour lines, the last rows, below the grid
PointerYs == {0, 16, 17, 20, 24, 70, GridHeight}
DragDays == {Jan09, Jan10}

CalMouseDownOnGrid(dateStr, y) ==
    /\ lastOp' = <<"handleMouseDownOnGrid", dateStr>>
    /\ handleMouseDownOnGrid(dateStr, y)
    /\ emitted' = NoEmission
    /\ UNCHANGED <<appVars, form, alerted, fnVars>>

CalMouseDownOnShift(shift, type, y) ==
    /\ lastOp' = <<"handleMouseDownOnShift", None>>
    /\ OnBlock(shift, y)
    \* the resize handles are rendered only when the calendar is editable
    /\ readOnly => type = "move"
    /\ handleMouseDownOnShift(shift, type, y)
    /\ emitted' = NoEmission
    /\ UNCHANGED <<appVars, form, alerted, fnVars>>

CalMouseMove(y) ==
    /\ lastOp' = <<"handleMouseMove", None>>
    /\ handleMouseMove(y)
    /\ emitted' = NoEmission
    /\ UNCHANGED <<appVars, form, alerted, fnVars>>

CalGlobalMouseUp ==
    /\ lastOp' = <<"handleGlobalMouseUp", None>>
    /\ mouseupListenerAttached
    /\ emitted' = MouseUpEmission
    /\ SessionCleared
    /\ UNCHANGED <<appVars, form, alerted, fnVars>>

\* the shifts prop: anchors on half-hour lines inside [08:00, 23:00], and the
\* lists a snapshot may replace it with while the calendar is mounted
SeedA == Shift(1, "e1", Jan09, <<9, 0>>, <<11, 0>>)
SeedB == Shift(2, "e1", Jan09, <<11, 0>>, <<12, 0>>)
SeedC == Shift(3, "e2", Jan10, <<22, 0>>, <<23, 0>>)
SeedAEdited == Shift(1, "e1", Jan09, <<9, 30>>, <<11, 30>>)
DragShiftLists ==
    { {SeedA, SeedB, SeedC}, {SeedB, SeedC}, {SeedAEdited, SeedB, SeedC} }

InitDrag ==
    /\ lastOp = <<"init", None>>
    /\ gridHeight = GridHeight
    /\ currentUser \in {"admin", "staff"}
    /\ store = {SeedA, SeedB, SeedC} /\ nextDocId = 4 /\ shifts = store
    /\ inflight = {} /\ writesLeft = 0 /\ syncing = FALSE
    /\ isModalOpen = FALSE /\ editingShift = None
    /\ prefilledData = [date |-> NoField, startTime |-> NoField, endTime |-> NoField]
    /\ copiedShift = None /\ copiedWeekDate = None
    /\ FormUnmounted /\ CalIdle
    /\ emitted = NoEmission /\ alerted = ""
    /\ fnArgs = None /\ fnResult = None

\* the shifts listener delivers another client's change
CalShiftsSnapshot(list) ==
    /\ lastOp' = <<"ShiftsSnapshot", None>>
    /\ list # shifts
    /\ store' = list
    /\ shifts' = list
    /\ emitted' = NoEmission
    /\ UNCHANGED <<currentUser, nextDocId, inflight, writesLeft, syncing, isModalOpen,
                   editingShift, prefilledData, copiedShift, copiedWeekDate>>
    /\ UNCHANGED <<form, calVars, alerted, fnVars>>

NextDrag ==
    \/ \E d \in DragDays, y \in PointerYs : CalMouseDownOnGrid(d, y)
    \/ \E s \in shifts, type \in InteractionTypes, y \in PointerYs :
          CalMouseDownOnShift(s, type, y)
    \/ \E y \in PointerYs : CalMouseMove(y)
    \/ CalGlobalMouseUp
    \/ \E list \in DragShiftLists : CalShiftsSnapshot(list)

SpecDrag == InitDrag /\ [][NextDrag]_vars

(***************************************************************************)
(* The calendar on a grid one pixel higher, whose pixel rows lie between   *)
(* the minutes, showing shifts the form can have stored: one ending at the *)
(* end of the window, one inside it, one starting before START_HOUR (the   *)
(* form's TIME_OPTIONS run from 00:00 to 23:30), one of half an hour.      *)
(***************************************************************************)
FineLate == Shift(1, "e1", Jan09, <<21, 30>>, <<23, 0>>)
FineNine == Shift(2, "e2", Jan09, <<9, 0>>, <<10, 0>>)
FineEarly == Shift(3, "e1", Jan10, <<7, 0>>, <<9, 0>>)
FineHalf == Shift(4, "e2", Jan10, <<22, 30>>, <<23, 0>>)
FineShifts == {FineLate, FineNine, FineEarly, FineHalf}

\* pixel rows: the first row, rows at 08:59, 09:14, 09:43 and 09:58, the row
\* at 22:30.5 and the last row
FinePointerYs == {12, 16, 17, 19, 20, 71, 73}

FineMouseMove(y) ==
    /\ lastOp' = <<"handleMouseMove", Some(y)>>
    /\ handleMouseMove(y)
    /\ emitted' = NoEmission
    /\ UNCHANGED <<appVars, form, alerted, fnVars>>

InitFine ==
    /\ lastOp = <<"init", None>>
    /\ gridHeight = GridHeight + 1
    /\ currentUser = "admin"
    /\ store = FineShifts /\ nextDocId = 5 /\ shifts = store
    /\ inflight = {} /\ writesLeft = 0 /\ syncing = FALSE
    /\ isModalOpen = FALSE /\ editingShift = None
    /\ prefilledData = [date |-> NoField, startTime |-> NoField, endTime |-> NoField]
    /\ copiedShift = None /\ copiedWeekDate = None
    /\ FormUnmounted /\ CalIdle
    /\ emitted = NoEmission /\ alerted = ""
    /\ fnArgs = None /\ fnResult = None

NextFine ==
    \/ \E d \in DragDays, y \in FinePointerYs : CalMouseDownOnGrid(d, y)
    \/ \E s \in shifts, type \in InteractionTypes, y \in FinePointerYs :
          CalMouseDownOnShift(s, type, y)
    \/ \E y \in FinePointerYs : FineMouseMove(y)
    \/ CalGlobalMouseUp

SpecFine == InitFine /\ [][NextFine]_vars

(***************************************************************************)
(* The App component with the calendar and the form mounted in it.         *)
(***************************************************************************)
\* the employees list (employees[0] is FirstEmployee) and format(new Date())
Employees == {"e1", "e2"}
FirstEmployee == "e1"
Today == Jan10

\* ShiftModal's effect on opening: the fields it shows
OpenedForm(editing, prefilled) ==
    IF editing # None
    THEN [employeeId |-> editing[1].employeeId,
          date |-> editing[1].date,
          startTime |-> snapTo30Min(editing[1].startTime),
          endTime |-> snapTo30Min(editing[1].endTime),
          error |-> ""]
    ELSE [employeeId |-> FirstEmployee,
          date |-> IF prefilled.date = NoField THEN Today ELSE prefilled.date,
          startTime |-> snapTo30Min(IF prefilled.startTime = NoField THEN <<9, 0>>
                                    ELSE prefilled.startTime),
          endTime |-> snapTo30Min(IF prefilled.endTime = NoField THEN <<17, 0>>
                                  ELSE prefilled.endTime),
          error |-> ""]

\* no drag session.  The pointer has one button: a press follows the release
\* of the previous press, and a click ends with a mouseup, which clears any
\* session first (the calendar alone, SpecDrag, takes presses in any state)
NoSession == ~isSelecting /\ activeShiftId = None
\* the modal's backdrop covers the page while it is open
PageReachable == currentUser # "none" /\ ~isModalOpen
ModalShown == isModalOpen /\ currentUser = "admin"

Quiet == emitted' = NoEmission /\ alerted' = ""

\* the "new shift" button of the header
handleOpenNewShift ==
    /\ lastOp' = <<"handleOpenNewShift", None>>
    /\ PageReachable /\ NoSession
    /\ currentUser = "admin"
    /\ editingShift' = None
    /\ prefilledData' = EmptyPrefill
    /\ isModalOpen' = TRUE
    /\ form' = OpenedForm(None, EmptyPrefill)
    /\ Quiet
    /\ UNCHANGED <<currentUser, store, nextDocId, shifts, inflight, writesLeft, syncing,
                   copiedShift, copiedWeekDate>>
    /\ UNCHANGED <<calVars, fnVars>>

\* double click on a shift block
handleEditShift(shift) ==
    /\ lastOp' = <<"handleEditShift", None>>
    /\ PageReachable /\ NoSession
    /\ ~readOnly
    /\ currentUser = "admin"
    /\ shift \in shifts
    /\ editingShift' = Some(shift)
    /\ isModalOpen' = TRUE
    /\ form' = OpenedForm(Some(shift), prefilledData)
    /\ Quiet
    /\ UNCHANGED <<currentUser, store, nextDocId, shifts, inflight, writesLeft, syncing,
                   prefilledData, copiedShift, copiedWeekDate>>
    /\ UNCHANGED <<calVars, fnVars>>

SetFormField(field, value) ==
    /\ lastOp' = <<"SetFormField", None>>
    /\ ModalShown
    /\ form[field] # value
    /\ form' = [form EXCEPT ![field] = value]
    /\ Quiet
    /\ UNCHANGED <<appVars, calVars, fnVars>>

\* the shift handleSubmit builds from the fields
SubmittedShift ==
    [id |-> IF editingShift # None THEN editingShift[1].id ELSE NowId,
     employeeId |-> form.employeeId,
     date |-> form.date,
     startTime |-> form.startTime,
     endTime |-> form.endTime,
     hours |-> calculateShiftHours(form.startTime, form.endTime)]

\* the message handleSubmit sets, "" when the shift goes to onSave
SubmitError ==
    IF form.employeeId = NoEmployee THEN "Please select a staff member."
    ELSE IF calculateShiftHours(form.startTime, form.endTime) <= 0
    THEN "End time must be after start time."
    ELSE IF checkOverlap(shifts, SubmittedShift) THEN "Schedule Conflict"
    ELSE ""

handleSubmit ==
    /\ lastOp' = <<"handleSubmit", None>>
    /\ ModalShown
    /\ IF SubmitError # ""
       THEN /\ form' = [form EXCEPT !.error = SubmitError]
            /\ UNCHANGED <<inflight, writesLeft, syncing>>
       ELSE /\ form' = [form EXCEPT !.error = ""]
            /\ mayWrite
            /\ LET call == saveShiftCall(SubmittedShift)
               IN  /\ CanIssue(IF call.kind = "addDoc" THEN 1 ELSE 0)
                   /\ inflight' = inflight \cup {call}
                   /\ writesLeft' = writesLeft - 1
                   /\ syncing' = IF call.kind = "addDoc" THEN TRUE ELSE syncing
    /\ Quiet
    /\ UNCHANGED <<currentUser, store, nextDocId, shifts, isModalOpen, editingShift,
                   prefilledData, copiedShift, copiedWeekDate>>
    /\ UNCHANGED <<calVars, fnVars>>

\* the form's delete button (shown when editing)
deleteShift ==
    /\ lastOp' = <<"deleteShift", None>>
    /\ ModalShown
    /\ mayWrite
    /\ editingShift # None
    /\ CanIssue(0)
    /\ syncing' = TRUE
    /\ inflight' = inflight \cup {Call("deleteDoc", "deleteShift", editingShift[1], {})}
    /\ writesLeft' = writesLeft - 1
    /\ Quiet
    /\ UNCHANGED <<currentUser, store, nextDocId, shifts, isModalOpen, editingShift,
                   prefilledData, copiedShift, copiedWeekDate>>
    /\ UNCHANGED <<form, calVars, fnVars>>

\* the form's copy button: onCopy(editingShift), then onClose()
CopyShift ==
    /\ lastOp' = <<"CopyShift", None>>
    /\ ModalShown
    /\ editingShift # None
    /\ copiedShift' = Some([employeeId |-> editingShift[1].employeeId,
                            startTime |-> editingShift[1].startTime,
                            endTime |-> editingShift[1].endTime])
    /\ isModalOpen' = FALSE /\ editingShift' = None /\ prefilledData' = EmptyPrefill
    /\ form' = UnmountedForm
    /\ Quiet
    /\ UNCHANGED <<currentUser, store, nextDocId, shifts, inflight, writesLeft, syncing,
                   copiedWeekDate>>
    /\ UNCHANGED <<calVars, fnVars>>

CloseModal ==
    /\ lastOp' = <<"CloseModal", None>>
    /\ ModalShown
    /\ isModalOpen' = FALSE /\ editingShift' = None /\ prefilledData' = EmptyPrefill
    /\ form' = UnmountedForm
    /\ Quiet
    /\ UNCHANGED <<currentUser, store, nextDocId, shifts, inflight, writesLeft, syncing,
                   copiedShift, copiedWeekDate>>
    /\ UNCHANGED <<calVars, fnVars>>

ClearCopiedShift ==
    /\ lastOp' = <<"ClearCopiedShift", None>>
    /\ PageReachable /\ NoSession
    /\ copiedShift # None /\ currentUser = "admin"
    /\ copiedShift' = None
    /\ Quiet
    /\ UNCHANGED <<currentUser, store, nextDocId, shifts, inflight, writesLeft, syncing,
                   isModalOpen, editingShift, prefilledData, copiedWeekDate>>
    /\ UNCHANGED <<form, calVars, fnVars>>

\* the shift handlePasteShift builds from the template
PastedShift(date) ==
    [id |-> TempCheckId,
     employeeId |-> copiedShift[1].employeeId,
     date |-> date,
     startTime |-> copiedShift[1].startTime,
     endTime |-> copiedShift[1].endTime,
     hours |-> calculateShiftHours(copiedShift[1].startTime, copiedShift[1].endTime)]

\* a write that skips the conflict check
handlePasteShiftUnchecked(date) ==
    /\ lastOp' = <<"handlePasteShift", date>>
    /\ PageReachable /\ NoSession
    /\ currentUser = "admin"
    /\ copiedShift # None
    /\ CanIssue(1)
    /\ syncing' = TRUE
    /\ inflight' = inflight \cup
                     {Call("addDoc", "handlePasteShift", PastedShift(date), {})}
    /\ writesLeft' = writesLeft - 1
    /\ Quiet
    /\ UNCHANGED <<currentUser, store, nextDocId, shifts, isModalOpen, editingShift,
                   prefilledData, copiedShift, copiedWeekDate>>
    /\ UNCHANGED <<form, calVars, fnVars>>

\* the PASTE button of a day header
handlePasteShift(date) ==
    /\ lastOp' = <<"handlePasteShift", date>>
    /\ PageReachable /\ NoSession
    /\ mayWrite
    /\ copiedShift # None
    /\ IF checkOverlap(shifts, PastedShift(date))
       THEN /\ alerted' = "Conflict"
            /\ UNCHANGED <<inflight, writesLeft, syncing>>
       ELSE /\ CanIssue(1)
            /\ alerted' = ""
            /\ syncing' = TRUE
            /\ inflight' = inflight \cup
                             {Call("addDoc", "handlePasteShift", PastedShift(date), {})}
            /\ writesLeft' = writesLeft - 1
    /\ emitted' = NoEmission
    /\ UNCHANGED <<currentUser, store, nextDocId, shifts, isModalOpen, editingShift,
                   prefilledData, copiedShift, copiedWeekDate>>
    /\ UNCHANGED <<form, calVars, fnVars>>

\* MonthlyCalendar: the row of the copied week has its copy button disabled
\* and shows no paste button
IsCopiedWeek(weekStart) ==
    copiedWeekDate # None /\ isSameWeek(weekStart, copiedWeekDate[1])

handleCopyWeek(weekStart) ==
    /\ lastOp' = <<"handleCopyWeek", Some(weekStart)>>
    /\ PageReachable /\ NoSession
    /\ currentUser = "admin"
    /\ ~IsCopiedWeek(weekStart)
    /\ copiedWeekDate' = Some(weekStart)
    /\ Quiet
    /\ UNCHANGED <<currentUser, store, nextDocId, shifts, inflight, writesLeft, syncing,
                   isModalOpen, editingShift, prefilledData, copiedShift>>
    /\ UNCHANGED <<form, calVars, fnVars>>

ClearCopiedWeek ==
    /\ lastOp' = <<"ClearCopiedWeek", None>>
    /\ PageReachable /\ NoSession
    /\ copiedWeekDate # None /\ currentUser = "admin"
    /\ copiedWeekDate' = None
    /\ Quiet
    /\ UNCHANGED <<currentUser, store, nextDocId, shifts, inflight, writesLeft, syncing,
                   isModalOpen, editingShift, prefilledData, copiedShift>>
    /\ UNCHANGED <<form, calVars, fnVars>>

\* a paste-week that checks its generated shifts like the single-shift paste
handlePasteWeekChecked(targetWeekStart, confirmed) ==
    /\ lastOp' = <<"handlePasteWeek", Some(targetWeekStart), confirmed>>
    /\ PageReachable /\ NoSession
    /\ copiedWeekDate # None /\ currentUser = "admin"
    /\ ~IsCopiedWeek(targetWeekStart)
    /\ LET docs == PasteWeekDocs(shifts, copiedWeekDate[1], targetWeekStart)
       IN  IF docs = {}
           THEN /\ alerted' = "No shifts found in the source week to copy."
                /\ UNCHANGED <<inflight, writesLeft, syncing>>
           ELSE IF ~confirmed
           THEN /\ alerted' = ""
                /\ UNCHANGED <<inflight, writesLeft, syncing>>
           ELSE IF \E x \in docs : checkOverlap(shifts, [x.data EXCEPT !.id = TempCheckId])
           THEN /\ alerted' = "Conflict"
                /\ UNCHANGED <<inflight, writesLeft, syncing>>
           ELSE /\ CanIssue(Cardinality(docs))
                /\ alerted' = ""
                /\ syncing' = TRUE
                /\ inflight' = inflight \cup
                                 {Call("batch", "handlePasteWeek", NoShiftData, docs)}
                /\ writesLeft' = writesLeft - 1
    /\ emitted' = NoEmission
    /\ UNCHANGED <<currentUser, store, nextDocId, shifts, isModalOpen, editingShift,
                   prefilledData, copiedShift, copiedWeekDate>>
    /\ UNCHANGED <<form, calVars, fnVars>>

\* the paste-week button; confirmed is the answer to confirm()
handlePasteWeek(targetWeekStart, confirmed) ==
    /\ lastOp' = <<"handlePasteWeek", Some(targetWeekStart), confirmed>>
    /\ PageReachable /\ NoSession
    /\ copiedWeekDate # None /\ mayWrite
    /\ ~IsCopiedWeek(targetWeekStart)
    /\ LET docs == PasteWeekDocs(shifts, copiedWeekDate[1], targetWeekStart)
       IN  IF docs = {}
           THEN /\ alerted' = "No shifts found in the source week to copy."
                /\ UNCHANGED <<inflight, writesLeft, syncing>>
           ELSE IF ~confirmed
           THEN /\ alerted' = ""
                /\ UNCHANGED <<inflight, writesLeft, syncing>>
           ELSE /\ CanIssue(Cardinality(docs))
                /\ alerted' = ""
                /\ syncing' = TRUE
                /\ inflight' = inflight \cup
                                 {Call("batch", "handlePasteWeek", NoShiftData, docs)}
                /\ writesLeft' = writesLeft - 1
    /\ emitted' = NoEmission
    /\ UNCHANGED <<currentUser, store, nextDocId, shifts, isModalOpen, editingShift,
                   prefilledData, copiedShift, copiedWeekDate>>
    /\ UNCHANGED <<form, calVars, fnVars>>

(***************************************************************************)
(* The calendar mounted in App: onAddShift is handleOpenNewShift(date,      *)
(* start, end), onSaveShift is saveShift.                                  *)
(***************************************************************************)
AppMouseDownOnGrid(dateStr, y) ==
    /\ lastOp' = <<"handleMouseDownOnGrid", dateStr>>
    /\ PageReachable /\ NoSession
    /\ handleMouseDownOnGrid(dateStr, y)
    /\ Quiet
    /\ UNCHANGED <<appVars, form, fnVars>>

AppMouseDownOnShift(shift, type, y) ==
    /\ lastOp' = <<"handleMouseDownOnShift", None>>
    /\ PageReachable /\ NoSession
    /\ shift \in shifts
    /\ OnBlock(shift, y)
    /\ readOnly => type = "move"
    /\ handleMouseDownOnShift(shift, type, y)
    /\ Quiet
    /\ UNCHANGED <<appVars, form, fnVars>>

AppMouseMove(y) ==
    /\ lastOp' = <<"handleMouseMove", None>>
    /\ PageReachable
    /\ isSelecting \/ activeShiftId # None
    /\ handleMouseMove(y)
    /\ Quiet
    /\ UNCHANGED <<appVars, form, fnVars>>

AppGlobalMouseUp ==
    /\ lastOp' = <<"handleGlobalMouseUp", None>>
    /\ mouseupListenerAttached
    /\ isSelecting \/ activeShiftId # None
    /\ LET calls == MouseUpEmission
           adds == {i \in DOMAIN calls : calls[i].cb = "onAddShift"}
           saves == {i \in DOMAIN calls : calls[i].cb = "onSaveShift"}
           admin == currentUser = "admin"
       IN  /\ emitted' = calls
           /\ IF adds # {} /\ admin
              THEN LET c == calls[CHOOSE i \in adds : TRUE]
                       prefilled == [date |-> c.date, startTime |-> c.startTime,
                                     endTime |-> c.endTime]
                   IN  /\ editingShift' = None
                       /\ prefilledData' = prefilled
                       /\ isModalOpen' = TRUE
                       /\ form' = OpenedForm(None, prefilled)
              ELSE UNCHANGED <<editingShift, prefilledData, isModalOpen, form>>
           /\ IF saves # {} /\ mayWrite
              THEN LET call == saveShiftCall(calls[CHOOSE i \in saves : TRUE].shift[1])
                   IN  /\ CanIssue(IF call.kind = "addDoc" THEN 1 ELSE 0)
                       /\ inflight' = inflight \cup {call}
                       /\ writesLeft' = writesLeft - 1
                       /\ syncing' = IF call.kind = "addDoc" THEN TRUE ELSE syncing
              ELSE UNCHANGED <<inflight, writesLeft, syncing>>
    /\ SessionCleared
    /\ alerted' = ""
    /\ UNCHANGED <<currentUser, store, nextDocId, shifts, copiedShift, copiedWeekDate>>
    /\ UNCHANGED fnVars

(***************************************************************************)
(* Editing: every way a single shift is written (form, drag, paste).       *)
(***************************************************************************)
EditA == Shift(1, "e1", Jan09, <<9, 0>>, <<10, 0>>)
EditB == Shift(2, "e1", Jan09, <<10, 0>>, <<11, 0>>)
EditSeed == {EditA, EditB}
EditDays == {Jan09, Jan10}
\* rows of 09:00, 09:15 and 10:00
EditPointerYs == {16, 17, 20}

InitApp(seed, writes) ==
    /\ lastOp = <<"init", None>>
    /\ gridHeight = GridHeight
    /\ currentUser = "none"
    /\ store = seed /\ nextDocId = Cardinality(seed) + 1 /\ shifts = {}
    /\ inflight = {} /\ writesLeft = writes /\ syncing = FALSE
    /\ isModalOpen = FALSE /\ editingShift = None /\ prefilledData = EmptyPrefill
    /\ copiedShift = None /\ copiedWeekDate = None
    /\ form = UnmountedForm /\ CalIdle
    /\ emitted = NoEmission /\ alerted = ""
    /\ fnArgs = None /\ fnResult = None

InitEdit == InitApp(EditSeed, MaxEditWrites)

NextEdit ==
    \/ \E role \in {"admin", "staff"} : Login(role)
    \/ ShiftsSnapshot
    \/ \E r \in inflight : WriteSucceeds(r)
    \/ \E r \in inflight : WriteFails(r)
    \/ \E d \in EditDays, y \in EditPointerYs : AppMouseDownOnGrid(d, y)
    \/ \E s \in shifts, type \in InteractionTypes, y \in EditPointerYs :
          AppMouseDownOnShift(s, type, y)
    \/ \E y \in EditPointerYs : AppMouseMove(y)
    \/ AppGlobalMouseUp
    \/ handleOpenNewShift
    \/ \E s \in shifts : handleEditShift(s)
    \/ \E e \in Employees : SetFormField("employeeId", e)
    \/ handleSubmit
    \/ deleteShift
    \/ CopyShift
    \/ CloseModal
    \/ ClearCopiedShift
    \/ \E d \in EditDays : handlePasteShift(d)

SpecEdit == InitEdit /\ [][NextEdit]_vars

(***************************************************************************)
(* Replication: copy and paste of one shift and of a week.                 *)
(***************************************************************************)
Jan07 == <<2024, 1, 7>>
Jan13 == <<2024, 1, 13>>
Jan14 == <<2024, 1, 14>>
Jan16 == <<2024, 1, 16>>
Jan28 == <<2024, 1, 28>>

\* two shifts in the week of 2024-01-07, one in the week of 2024-01-14
PasteA == Shift(1, "e1", Jan09, <<9, 0>>, <<10, 0>>)
PasteB == Shift(2, "e2", Jan13, <<12, 0>>, <<14, 0>>)
PasteC == Shift(3, "e1", Jan16, <<9, 30>>, <<10, 30>>)
PasteSeed == {PasteA, PasteB, PasteC}
\* day headers with a PASTE button, first days of the month view's rows
PasteDays == {Jan09, Jan16}
WeekStarts == {Jan07, Jan14, Jan28}

InitPaste == InitApp(PasteSeed, MaxPasteWrites)

NextPaste ==
    \/ \E role \in {"admin", "staff"} : Login(role)
    \/ ShiftsSnapshot
    \/ \E r \in inflight : WriteSucceeds(r)
    \/ \E r \in inflight : WriteFails(r)
    \/ \E s \in shifts : handleEditShift(s)
    \/ CopyShift
    \/ CloseModal
    \/ ClearCopiedShift
    \/ \E d \in PasteDays : handlePasteShift(d)
    \/ \E w \in WeekStarts : handleCopyWeek(parseISO(w))
    \/ ClearCopiedWeek
    \/ \E w \in WeekStarts, confirmed \in BOOLEAN :
          handlePasteWeek(parseISO(w), confirmed)

SpecPaste == InitPaste /\ [][NextPaste]_vars

(***************************************************************************)
(* Every handler that writes to the store: form create and update, delete, *)
(* single paste and week paste.                                            *)
(***************************************************************************)
InitWrites == InitApp(PasteSeed, MaxPasteWrites)

NextWrites ==
    \/ NextPaste
    \/ handleOpenNewShift
    \/ handleSubmit
    \/ deleteShift

SpecWrites == InitWrites /\ [][NextWrites]_vars

(***************************************************************************)
(* The form alone: every field the user can change, then submit.           *)
(***************************************************************************)
\* options of the start and end selects the user picks
FormTimes == {<<9, 0>>, <<9, 30>>, <<10, 0>>, <<17, 0>>}

InitForm == InitApp(EditSeed, MaxEditWrites)

NextForm ==
    \/ \E role \in {"admin", "staff"} : Login(role)
    \/ ShiftsSnapshot
    \/ \E r \in inflight : WriteSucceeds(r)
    \/ \E r \in inflight : WriteFails(r)
    \/ handleOpenNewShift
    \/ \E s \in shifts : handleEditShift(s)
    \/ \E e \in Employees : SetFormField("employeeId", e)
    \/ \E d \in EditDays : SetFormField("date", d)
    \/ \E t \in FormTimes : SetFormField("startTime", t)
    \/ \E t \in FormTimes : SetFormField("endTime", t)
    \/ handleSubmit
    \/ deleteShift
    \/ CloseModal

SpecForm == InitForm /\ [][NextForm]_vars

(***************************************************************************)
(* Harness for the helpers: the inputs are drawn in Init, one action       *)
(* applies the helper.                                                     *)
(***************************************************************************)
MaxExisting == 2

OverlapPool ==
    { Shift(1, "e1", Jan10, <<9, 0>>, <<12, 0>>),
      Shift(2, "e1", Jan10, <<12, 0>>, <<14, 0>>),
      Shift(3, "e2", Jan10, <<9, 0>>, <<12, 0>>),
      Shift(4, "e1", Jan09, <<10, 0>>, <<11, 0>>) }

OverlapCandidates ==
    [id : {1, 2, NowId},
     employeeId : {NoEmployee, "e1", "e2"},
     date : {NoField, Jan09, Jan10},
     startTime : {NoField, <<8, 0>>, <<9, 0>>, <<11, 0>>, <<12, 0>>, <<13, 0>>},
     endTime : {NoField, <<9, 0>>, <<11, 0>>, <<12, 0>>, <<13, 0>>, <<14, 0>>}]

InitOverlap ==
    /\ lastOp = <<"init", None>>
    /\ gridHeight = GridHeight
    /\ AppIdle /\ FormUnmounted /\ CalIdle
    /\ emitted = NoEmission /\ alerted = ""
    /\ fnArgs \in [shifts : {S \in SUBSET OverlapPool : Cardinality(S) <= MaxExisting},
                    newShift : OverlapCandidates]
    /\ fnResult = None

ApplyCheckOverlap ==
    /\ lastOp' = <<"ApplyCheckOverlap", None>>
    /\ fnResult = None
    /\ fnResult' = Some(checkOverlap(fnArgs.shifts, fnArgs.newShift))
    /\ UNCHANGED <<appVars, form, calVars, emitted, alerted, fnArgs>>

NextOverlap == ApplyCheckOverlap

SpecOverlap == InitOverlap /\ [][NextOverlap]_vars

Minutes(t) == t[1] * 60 + t[2]

\* the conflict condition as stated: all four fields present, and some other
\* shift of the same employee and date with candidateStart < existingEnd and
\* candidateEnd > existingStart in minutes since midnight
StatedConflict(existing, c) ==
    /\ c.employeeId # NoEmployee /\ c.date # NoField
    /\ c.startTime # NoField /\ c.endTime # NoField
    /\ \E s \in existing :
          /\ s.employeeId = c.employeeId /\ s.date = c.date /\ s.id # c.id
          /\ Minutes(c.startTime) < Minutes(s.endTime)
          /\ Minutes(c.endTime) > Minutes(s.startTime)

Touches(c, s) ==
    /\ ~MissingField(c)
    /\ s.employeeId = c.employeeId /\ s.date = c.date /\ s.id # c.id
    /\ (c.startTime = s.endTime \/ c.endTime = s.startTime)

\* C2: checkOverlap returns true iff the candidate has all four fields and some
\* existing shift of the same employee and date with another id has
\* candidateStart < existingEnd and candidateEnd > existingStart; a candidate
\* missing a field, a candidate compared with itself only, and a candidate that
\* only touches the existing shifts at an endpoint yield false.
C2_CheckOverlapIff ==
    fnResult # None =>
        LET c == fnArgs.newShift
            ex == fnArgs.shifts
        IN  /\ fnResult[1] <=> StatedConflict(ex, c)
            /\ MissingField(c) => fnResult[1] = FALSE
            /\ (\A s \in ex : s.id = c.id) => fnResult[1] = FALSE
            /\ (Cardinality(ex) = 1 /\ \A s \in ex : Touches(c, s) /\ Minutes(c.startTime) < Minutes(c.endTime))
                  => fnResult[1] = FALSE

\* a candidate that touches the end of an existing shift of the same employee
\* and date has been checked
C2_Witness ==
    /\ fnResult # None
    /\ fnArgs.newShift.startTime = <<12, 0>>
    /\ fnArgs.newShift.endTime = <<14, 0>>
    /\ fnArgs.newShift.id = NowId
    /\ fnArgs.shifts = {Shift(1, "e1", Jan10, <<9, 0>>, <<12, 0>>)}
    /\ Touches(fnArgs.newShift, Shift(1, "e1", Jan10, <<9, 0>>, <<12, 0>>))

(***************************************************************************)
(* Properties of the drag controller (SpecDrag).                           *)
(***************************************************************************)
OnHalfHourLines(st, en) ==
    /\ Minutes(st) % SNAP_MINUTES = 0
    /\ Minutes(en) % SNAP_MINUTES = 0
    /\ START_HOUR * 60 <= Minutes(st)
    /\ Minutes(en) <= END_HOUR * 60
    /\ Minutes(en) - Minutes(st) >= SNAP_MINUTES

AnchorsOnHalfHourLines ==
    \A s \in shifts : OnHalfHourLines(s.startTime, s.endTime)

\* C3: with every anchor on half-hour lines inside [08:00, 23:00], every
\* create-request with times and every update-request the controller emits
\* carries start and end times that are multiples of 30 minutes, lie within
\* [08:00, 23:00] and are at least half an hour apart.
C3_EmittedTimesSnapped ==
    AnchorsOnHalfHourLines =>
        \A i \in DOMAIN emitted :
            LET call == emitted[i]
            IN  /\ (call.cb = "onAddShift" /\ call.startTime # NoField)
                      => OnHalfHourLines(call.startTime, call.endTime)
                /\ call.cb = "onSaveShift"
                      => OnHalfHourLines(call.shift[1].startTime, call.shift[1].endTime)

SelectingSession ==
    isSelecting /\ dragDay # None /\ dragStartHour # None /\ dragCurrentHour # None

\* the time string t names the decimal hour h exactly
NamesHour(t, h) == IsTimeString(t) /\ Minutes(t) * HourUnit = h * 60

\* C9: on pointer-up in Selecting(day, startHour, currentHour), with start the
\* smaller and end the larger of the two hours: if end - start >= 0.5h,
\* onAddShift(day, HH:mm of start, HH:mm of end) is fired; if the drag had zero
\* extent, onAddShift(day) is fired with no times.
C9_SelectingPointerUp ==
    [][(SelectingSession /\ ~isSelecting') =>
         LET start == Min(dragStartHour[1], dragCurrentHour[1])
             end == Max(dragStartHour[1], dragCurrentHour[1])
         IN  /\ end - start >= HalfHour =>
                  \E i \in DOMAIN emitted' :
                      /\ emitted'[i].cb = "onAddShift"
                      /\ emitted'[i].date = dragDay
                      /\ NamesHour(emitted'[i].startTime, start)
                      /\ NamesHour(emitted'[i].endTime, end)
             /\ end = start =>
                  \E i \in DOMAIN emitted' :
                      /\ emitted'[i].cb = "onAddShift"
                      /\ emitted'[i].date = dragDay
                      /\ emitted'[i].startTime = NoField
                      /\ emitted'[i].endTime = NoField]_vars

\* a create-drag from 09:00 to exactly half an hour later has been released
C9_Witness ==
    /\ ~isSelecting
    /\ emitted = <<AddShiftCall(Jan09, <<9, 0>>, <<9, 30>>)>>

InteractingSession ==
    activeShiftId # None /\ tempShift # None /\ interactionInitialHours # None

SaveCalls(calls) == {i \in DOMAIN calls : calls[i].cb = "onSaveShift"}

DiffersFromSnapshot ==
    \/ hourOfTimeString(tempShift[1].startTime) # interactionInitialHours[1].start
    \/ hourOfTimeString(tempShift[1].endTime) # interactionInitialHours[1].end

DiffersFromLiveEntry ==
    \E s \in shifts :
        /\ s.id = tempShift[1].id
        /\ (s.startTime # tempShift[1].startTime \/ s.endTime # tempShift[1].endTime)

\* the candidate keeps the anchor's identity from pointer-down to pointer-up,
\* and an emitted update-request carries the candidate
CandidateKeepsAnchor ==
    /\ (tempShift' # None /\ tempShift' # tempShift /\ activeShiftId' # activeShiftId)
          => tempShift'[1] \in shifts /\ activeShiftId' = Some(tempShift'[1].id)
    /\ (tempShift # None /\ tempShift' # None /\ activeShiftId' = activeShiftId)
          => /\ tempShift'[1].id = tempShift[1].id
             /\ tempShift'[1].employeeId = tempShift[1].employeeId
             /\ tempShift'[1].date = tempShift[1].date
    /\ (InteractingSession /\ activeShiftId' = None)
          => \A i \in SaveCalls(emitted') :
                 /\ emitted'[i].shift = tempShift
                 /\ tempShift[1].id = activeShiftId[1]

\* C10 (as stated): on pointer-up in Interacting an update-request is emitted
\* exactly when the candidate's startTime or endTime differs from the session's
\* original snapshot of the shift, with the anchor's id, employeeId and date.
C10_Original ==
    [][/\ (InteractingSession /\ activeShiftId' = None)
            => /\ DiffersFromSnapshot <=> SaveCalls(emitted') # {}
               /\ Cardinality(SaveCalls(emitted')) <= 1
       /\ CandidateKeepsAnchor]_vars

\* C10 (amended): on pointer-up in Interacting an update-request is emitted
\* exactly when the live shift set still holds a shift with the candidate's id
\* and the candidate's startTime or endTime differs from that live shift's; the
\* emitted shift is the candidate, which has the anchor's id, employeeId and
\* date; otherwise nothing is emitted.
C10_Amended ==
    [][/\ (InteractingSession /\ activeShiftId' = None)
            => /\ DiffersFromLiveEntry <=> SaveCalls(emitted') # {}
               /\ Cardinality(SaveCalls(emitted')) <= 1
       /\ CandidateKeepsAnchor]_vars

\* a moved shift has been committed with an update-request
C10_Witness ==
    /\ activeShiftId = None
    /\ emitted # NoEmission
    /\ emitted[1].cb = "onSaveShift"
    /\ emitted[1].shift[1].id = 1
    /\ emitted[1].shift[1].startTime = <<10, 0>>
    /\ emitted[1].shift[1].endTime = <<12, 0>>

(***************************************************************************)
(* Properties of the single-shift writes (SpecEdit).                       *)
(***************************************************************************)
NewCalls == inflight' \ inflight

SingleShiftWrites == {r \in NewCalls : r.kind \in {"addDoc", "setDoc"}}

\* C1: no single-shift create, update (form edit or drag commit) or paste ever
\* sends a persistence request for a shift that overlaps another shift of the
\* same employee on the same date in the live shift set.
C1_ConflictGatesWrites ==
    [][\A r \in SingleShiftWrites : ~StatedConflict(shifts, r.data)]_vars

(***************************************************************************)
(* Properties of replication (SpecPaste).                                  *)
(***************************************************************************)
\* the duration in hours, to two decimals, in hundredths
StatedHours(st, en) == ((Minutes(en) - Minutes(st)) * 100 + 30) \div 60

\* C4: a single-shift paste onto a date with a template present sends nothing
\* and raises the conflict alert when the candidate (template employee, the
\* date, template start and end) conflicts with the live shift set; otherwise
\* it sends exactly one create-request with the template's employee, start and
\* end, the target date and hours = the duration from start to end.
C4_PasteShift ==
    [][(lastOp'[1] = "handlePasteShift" /\ copiedShift # None) =>
          LET t == copiedShift[1]
              date == lastOp'[2]
              candidate == [id |-> TempCheckId, employeeId |-> t.employeeId,
                            date |-> date, startTime |-> t.startTime,
                            endTime |-> t.endTime, hours |-> 0]
          IN  IF StatedConflict(shifts, candidate)
              THEN /\ NewCalls = {} /\ inflight' = inflight
                   /\ store' = store /\ shifts' = shifts
                   /\ alerted' = "Conflict"
              ELSE /\ Cardinality(NewCalls) = 1 /\ inflight \subseteq inflight'
                   /\ \A r \in NewCalls :
                         /\ r.kind = "addDoc"
                         /\ r.data.employeeId = t.employeeId
                         /\ r.data.date = date
                         /\ r.data.startTime = t.startTime
                         /\ r.data.endTime = t.endTime
                         /\ r.data.hours = StatedHours(t.startTime, t.endTime)
                   /\ alerted' = ""]_vars

\* the template of PasteB has been pasted onto 2024-01-09, where its employee
\* has no shift: one create-request is pending
C4_Witness ==
    /\ lastOp = <<"handlePasteShift", Jan09>>
    /\ copiedShift = Some([employeeId |-> "e2", startTime |-> <<12, 0>>,
                           endTime |-> <<14, 0>>])
    /\ \E r \in inflight :
          /\ r.kind = "addDoc" /\ r.origin = "handlePasteShift"
          /\ r.data.employeeId = "e2" /\ r.data.date = Jan09
          /\ r.data.startTime = <<12, 0>> /\ r.data.endTime = <<14, 0>>
          /\ r.data.hours = 200

(***************************************************************************)
(* The calendar as stated: the days of early 2024 one after the other.     *)
(***************************************************************************)
\* the days from Sunday 2023-12-31 to Saturday 2024-03-02 in order: one day
\* of December, the 31 of January, the 29 of February, two of March
Calendar ==
    [i \in 1..63 |->
        IF i = 1 THEN <<2023, 12, 31>>
        ELSE IF i <= 32 THEN <<2024, 1, i - 1>>
        ELSE IF i <= 61 THEN <<2024, 2, i - 32>>
        ELSE <<2024, 3, i - 61>>]
IndexOf(d) == CHOOSE i \in DOMAIN Calendar : Calendar[i] = d

PlusDays(d, k) == Calendar[IndexOf(d) + k]
\* the Sunday on or before a day, the week it starts, the days between two days
StatedSundayOf(d) == Calendar[IndexOf(d) - ((IndexOf(d) - 1) % 7)]
StatedWeek(sunday) == {PlusDays(sunday, i) : i \in 0..6}
StatedDayOffset(from, to) == IndexOf(to) - IndexOf(from)
\* the calendar day a Date falls on
CalendarDates == [i \in DOMAIN Calendar |-> parseISO(Calendar[i])]
DayOfDate(n) == Calendar[CHOOSE i \in DOMAIN Calendar : CalendarDates[i] = n]

\* the live shifts dated in the week a Sunday starts
StatedSourceShifts(sunday) == {s \in shifts : s.date \in StatedWeek(sunday)}

\* the batch a paste-week step has issued
IssuedBatch == CHOOSE r \in NewCalls : r.kind = "batch"
PasteWeekIssues == lastOp'[1] = "handlePasteWeek" /\ NewCalls # {}

\* C5: paste week generates exactly one new shift for every live shift dated in
\* the Sunday-based week of the copied date and none for the others, each dated
\* its source's date plus the days from the source week's Sunday to the target
\* week's Sunday, with its source's employee, start, end and hours; the result
\* is the same for every day of the source week copied and every day of the
\* target week pasted onto.
C5_PasteWeekShifts ==
    [][PasteWeekIssues =>
          LET sourceSunday == StatedSundayOf(DayOfDate(copiedWeekDate[1]))
              targetSunday == StatedSundayOf(DayOfDate(lastOp'[2][1]))
              dayOffset == StatedDayOffset(sourceSunday, targetSunday)
              sources == StatedSourceShifts(sourceSunday)
              docs == IssuedBatch.docs
          IN  /\ Cardinality(NewCalls) = 1
              /\ Cardinality(docs) = Cardinality(sources)
              /\ {x.src : x \in docs} = {s.id : s \in sources}
              /\ \A s \in sources : \A x \in docs :
                    x.src = s.id =>
                       /\ x.data.date = PlusDays(s.date, dayOffset)
                       /\ x.data.employeeId = s.employeeId
                       /\ x.data.startTime = s.startTime
                       /\ x.data.endTime = s.endTime
                       /\ x.data.hours = s.hours
              /\ \A c \in StatedWeek(sourceSunday), t \in StatedWeek(targetSunday) :
                    PasteWeekDocs(shifts, parseISO(c), parseISO(t)) = docs]_vars

\* the week of 2024-01-07 has been pasted onto the week of 2024-01-14: the
\* shift of 2024-01-09 is generated on 2024-01-16, the shift of 2024-01-16 is
\* not a source
C5_Witness ==
    /\ lastOp = <<"handlePasteWeek", Some(parseISO(Jan14)), TRUE>>
    /\ copiedWeekDate = Some(parseISO(Jan07))
    /\ PasteC \in shifts
    /\ \E r \in inflight :
          /\ r.kind = "batch" /\ Cardinality(r.docs) = 2
          /\ \E x \in r.docs : x.src = PasteA.id /\ x.data.date = Jan16

\* documents without their ids
Fields(d) == [employeeId |-> d.employeeId, date |-> d.date, startTime |-> d.startTime,
              endTime |-> d.endTime, hours |-> d.hours]

CompletedBatches == {r \in inflight \ inflight' : r.kind = "batch"}

\* C6: the shifts one paste-week generates are submitted in a single batch,
\* nothing is created at submission, and the step that completes the batch
\* either creates all of them (one new document per generated shift) or, if
\* the batch fails, creates none; no step creates a proper subset.
C6_PasteWeekAllOrNothing ==
    [][/\ PasteWeekIssues =>
            /\ Cardinality(NewCalls) = 1
            /\ \A r \in NewCalls :
                  /\ r.kind = "batch"
                  /\ Cardinality(r.docs) =
                        Cardinality(StatedSourceShifts(
                            StatedSundayOf(DayOfDate(copiedWeekDate[1]))))
            /\ store' = store
       /\ \A r \in CompletedBatches :
             \/ store' = store /\ alerted' = "Failed to paste week"
             \/ /\ store \subseteq store'
                /\ Cardinality(store' \ store) = Cardinality(r.docs)
                /\ {Fields(d) : d \in store' \ store} = {Fields(x.data) : x \in r.docs}
       /\ (CompletedBatches = {} /\ store \subseteq store') =>
             Cardinality(store' \ store) <= 1]_vars

\* the batch pasting the week of 2024-01-07 onto the week of 2024-01-14 has
\* succeeded: both generated shifts are in the store
C6_Witness ==
    /\ lastOp[1] = "WriteSucceeds"
    /\ store = PasteSeed \cup
                 { [PasteA EXCEPT !.id = 4, !.date = Jan16],
                   [PasteB EXCEPT !.id = 5, !.date = <<2024, 1, 20>>] }

\* two shifts of one employee on one date with overlapping times
Overlapping(a, b) ==
    /\ a.id # b.id /\ a.employeeId = b.employeeId /\ a.date = b.date
    /\ Minutes(a.startTime) < Minutes(b.endTime)
    /\ Minutes(a.endTime) > Minutes(b.startTime)

\* C7: paste week runs no conflict detection: a confirmed paste-week of a
\* non-empty source week submits all its generated shifts, also when some of
\* them overlap live shifts of the same employee on the same date.
C7_PasteWeekUnchecked ==
    [][(lastOp'[1] = "handlePasteWeek" /\ lastOp'[3]) =>
          LET sources == StatedSourceShifts(StatedSundayOf(DayOfDate(copiedWeekDate[1])))
          IN  sources # {} =>
                 /\ Cardinality(NewCalls) = 1
                 /\ Cardinality(IssuedBatch.docs) = Cardinality(sources)
                 /\ alerted' = ""]_vars

\* the copied week has been pasted twice onto one target week: the store holds
\* two generated shifts of one employee on one date with the same times
C7_Witness ==
    /\ lastOp[1] = "WriteSucceeds"
    /\ store = PasteSeed \cup
                 { [PasteA EXCEPT !.id = 4, !.date = Jan16],
                   [PasteB EXCEPT !.id = 5, !.date = <<2024, 1, 20>>],
                   [PasteA EXCEPT !.id = 6, !.date = Jan16],
                   [PasteB EXCEPT !.id = 7, !.date = <<2024, 1, 20>>] }
    /\ \E a, b \in store \ PasteSeed : Overlapping(a, b)

\* C8: a single-shift paste, whether it is sent, aborts on a conflict or its
\* write fails or succeeds, leaves the single-shift template unchanged; a week
\* paste, whether it is sent, finds no source shift, is declined or its batch
\* fails or succeeds, leaves the week template unchanged; the single-shift
\* template changes only by a copy or its clear, the week template only by a
\* week copy or its clear.
C8_TemplatesPersist ==
    [][/\ lastOp'[1] \in {"handlePasteShift", "handlePasteWeek",
                          "WriteSucceeds", "WriteFails"} =>
             copiedShift' = copiedShift /\ copiedWeekDate' = copiedWeekDate
       /\ copiedShift' # copiedShift => lastOp'[1] \in {"CopyShift", "ClearCopiedShift"}
       /\ copiedWeekDate' # copiedWeekDate =>
             lastOp'[1] \in {"handleCopyWeek", "ClearCopiedWeek"}]_vars

\* both templates are still held after a single-shift paste and a week paste
\* have been written
C8_Witness ==
    /\ lastOp[1] = "WriteSucceeds"
    /\ copiedShift # None /\ copiedWeekDate # None
    /\ writesLeft = 0 /\ inflight = {}
    /\ Cardinality(store) = Cardinality(PasteSeed) + 3

(***************************************************************************)
(* Sessions of the drag controller.                                        *)
(***************************************************************************)
\* C11: at most one drag session is active: no reachable state has a
\* create-drag (isSelecting) and an interaction on a shift (activeShiftId
\* set) at the same time
C11_OneSession == ~(isSelecting /\ activeShiftId # None)

IdleSession ==
    /\ ~isSelecting /\ dragDay = None /\ dragStartHour = None /\ dragCurrentHour = None
    /\ activeShiftId = None /\ interactionType = "null"
    /\ interactionInitialHours = None /\ tempShift = None

PointerDowns == {"handleMouseDownOnGrid", "handleMouseDownOnShift"}

\* C12: a read-only calendar never leaves Idle: every step taken while
\* readOnly starts and ends with the session fields idle, a pointer-down on
\* the grid or on a shift block leaves the whole controller state unchanged,
\* and no step emits an onAddShift or onSaveShift request
C12_ReadOnlyIdle ==
    [][readOnly =>
          /\ IdleSession /\ IdleSession'
          /\ emitted' = NoEmission
          /\ lastOp'[1] \in PointerDowns => UNCHANGED calVars]_vars

C12_Witness ==
    /\ readOnly /\ IdleSession
    /\ lastOp = <<"handleMouseDownOnGrid", Jan09>>

\* C13: every global pointer-up leaves all session fields cleared, whether
\* or not it emitted a request; when it emitted a save, the write is issued
\* in that same step and is still pending (the store and the live set are
\* unchanged) while the session is already idle
C13_PointerUpClears ==
    [][lastOp'[1] = "handleGlobalMouseUp" =>
          /\ IdleSession'
          /\ store' = store /\ shifts' = shifts
          /\ \A i \in DOMAIN emitted' :
                (emitted'[i].cb = "onSaveShift" /\ currentUser = "admin") =>
                    \E r \in inflight' \ inflight : r.data = emitted'[i].shift[1]]_vars

C13_Witness ==
    /\ lastOp[1] = "handleGlobalMouseUp" /\ IdleSession
    /\ \E i \in DOMAIN emitted : emitted[i].cb = "onSaveShift"
    /\ \E r \in inflight : r.kind = "setDoc" /\ r.data \notin store

(***************************************************************************)
(* Candidates of an interaction on a shift.                                *)
(***************************************************************************)
\* minutes since midnight of a decimal hour that names a whole minute
MinutesOfHour(h) == (h * 60) \div HourUnit

\* a pointer-move step that recomputes the candidate of an interaction
CandidateStep(type) ==
    /\ lastOp'[1] = "handleMouseMove" /\ lastOp'[2] # None
    /\ ~isSelecting /\ InteractingSession /\ interactionType = type

\* C14: a Move whose raw result needs no clamping (start within [8, 22.5],
\* end at most 23) yields a candidate whose endTime - startTime equals the
\* original duration exactly
C14_MovePreservesDuration ==
    [][CandidateStep("move") =>
          LET initial == interactionInitialHours[1]
              pointerHour == getHourFromY(lastOp'[2][1], gridHeight)
              rawStart == pointerHour - interactionOffset
              rawEnd == rawStart + (initial.end - initial.start)
              unclamped == /\ rawStart >= START_HOUR * HourUnit
                           /\ rawStart <= END_HOUR * HourUnit - HalfHour
                           /\ rawEnd <= END_HOUR * HourUnit
          IN  unclamped =>
                Minutes(tempShift'[1].endTime) - Minutes(tempShift'[1].startTime)
                    = MinutesOfHour(initial.end) - MinutesOfHour(initial.start)]_vars

\* the resize formulas as stated, in minutes since midnight: the top handle
\* sets start = min(pointerHour, originalEnd - 0.5) and keeps the original
\* end; the bottom handle sets end = max(pointerHour, originalStart + 0.5)
\* and keeps the original start; the result is at least half an hour long
StatedResize ==
    LET initial == interactionInitialHours[1]
        start0 == MinutesOfHour(initial.start)
        end0 == MinutesOfHour(initial.end)
        pointer == MinutesOfHour(getHourFromY(lastOp'[2][1], gridHeight))
        start1 == Minutes(tempShift'[1].startTime)
        end1 == Minutes(tempShift'[1].endTime)
    IN  /\ CandidateStep("resize-top") =>
              start1 = Min(pointer, end0 - 30) /\ end1 = end0
        /\ CandidateStep("resize-bottom") =>
              end1 = Max(pointer, start0 + 30) /\ start1 = start0
        /\ end1 - start1 >= 30

ResizeStep == CandidateStep("resize-top") \/ CandidateStep("resize-bottom")

\* the shift under the pointer lies inside the operating window
AnchorInWindow ==
    LET initial == interactionInitialHours[1]
    IN  /\ START_HOUR * HourUnit <= initial.start
        /\ initial.start < initial.end
        /\ initial.end <= END_HOUR * HourUnit

\* C15 as stated: every resize step moves only the dragged edge, by the
\* stated formula, and never yields less than half an hour
C15_Original == [][ResizeStep => StatedResize]_vars

\* C15: for a shift whose start and end lie within [08:00, 23:00], a resize
\* moves only the dragged edge: the top handle gives start = min(pointerHour,
\* originalEnd - 0.5) with the original end, the bottom handle gives end =
\* max(pointerHour, originalStart + 0.5) with the original start; every
\* resize candidate, of any shift, is at least half an hour long
C15_Amended ==
    [][ResizeStep =>
          /\ AnchorInWindow => StatedResize
          /\ Minutes(tempShift'[1].endTime) - Minutes(tempShift'[1].startTime) >= 30]_vars

\* the top handle of 09:00-10:00 dragged down to 09:43 gives 09:30-10:00
C15_Witness ==
    /\ lastOp = <<"handleMouseMove", Some(19)>>
    /\ ~isSelecting /\ interactionType = "resize-top"
    /\ tempShift = Some([FineNine EXCEPT !.startTime = <<9, 30>>, !.hours = 50])

(***************************************************************************)
(* The form's validation.                                                  *)
(***************************************************************************)
FormFields(f) == <<f.employeeId, f.date, f.startTime, f.endTime>>

\* the error kinds as stated: no employee, end <= start, or a stated
\* conflict of the form's candidate with the live shift set
StatedFormError ==
    \/ form.employeeId = NoEmployee
    \/ Minutes(form.endTime) <= Minutes(form.startTime)
    \/ StatedConflict(shifts,
                      [id |-> IF editingShift # None THEN editingShift[1].id ELSE NowId,
                       employeeId |-> form.employeeId, date |-> form.date,
                       startTime |-> form.startTime, endTime |-> form.endTime])

\* C16: submitting the form with no employee, with end time <= start time,
\* or with a range that conflicts with an existing shift issues no save,
\* leaves the employee/date/start/end fields unchanged and sets an error
\* message
C16_FormErrorsRecovered ==
    [][(lastOp'[1] = "handleSubmit" /\ StatedFormError) =>
          /\ inflight' = inflight /\ store' = store
          /\ FormFields(form') = FormFields(form)
          /\ form'.error # ""]_vars

(***************************************************************************)
(* Failed writes.                                                          *)
(***************************************************************************)
\* C17: a failed persistence call (create, update, delete, single paste or
\* week-paste batch) leaves the in-memory shift set and the store as they
\* were and is not issued again: the failing step only removes the call from
\* the pending calls; the in-memory shift set changes only in a step of the
\* snapshot listener, which sets it to the store's documents
C17_FailedWritesLeaveShifts ==
    [][/\ lastOp'[1] = "WriteFails" =>
             /\ shifts' = shifts /\ store' = store
             /\ \E r \in inflight : inflight' = inflight \ {r}
             /\ writesLeft' = writesLeft
       /\ shifts' # shifts => (lastOp'[1] = "ShiftsSnapshot" /\ shifts' = store)]_vars

\* a week-paste batch failed after an earlier call, nothing is pending and
\* the in-memory set is still the seed
C17_Witness ==
    /\ lastOp[1] = "WriteFails" /\ alerted = "Failed to paste week"
    /\ writesLeft = 0 /\ inflight = {}
    /\ shifts = PasteSeed

(***************************************************************************)
(* getHourFromY applied to pairs of pixel offsets, on containers from the  *)
(* lowest with a usable pixel row up to MaxPixel, with offsets above and   *)
(* below the container.                                                    *)
(***************************************************************************)
PixelHeights == {2 * VERTICAL_PADDING + 1, 39, GridHeight, GridHeight + 1, MaxPixel}
PixelYs == (0 - 3) .. (MaxPixel + 3)

InitPixel ==
    /\ lastOp = <<"init", None>>
    /\ gridHeight = GridHeight
    /\ AppIdle /\ FormUnmounted /\ CalIdle
    /\ emitted = NoEmission /\ alerted = ""
    /\ fnArgs \in {a \in [height : PixelHeights, y1 : PixelYs, y2 : PixelYs] : a.y1 <= a.y2}
    /\ fnResult = None

ApplyGetHourFromY ==
    /\ lastOp' = <<"ApplyGetHourFromY", None>>
    /\ fnResult = None
    /\ fnResult' = Some(<<getHourFromY(fnArgs.y1, fnArgs.height),
                          getHourFromY(fnArgs.y2, fnArgs.height)>>)
    /\ UNCHANGED <<appVars, form, calVars, emitted, alerted, fnArgs>>

NextPixel == ApplyGetHourFromY

SpecPixel == InitPixel /\ [][NextPixel]_vars

\* C18: getHourFromY is monotonic non-decreasing in y: for pixel offsets
\* y1 <= y2 on one container, getHourFromY(y1, h) <= getHourFromY(y2, h); and
\* every value it returns is a multiple of 0.5 within [8, 23]
C18_PixelToHour ==
    fnResult # None =>
        /\ fnArgs.y1 <= fnArgs.y2 => fnResult[1][1] <= fnResult[1][2]
        /\ \A i \in 1..2 :
              /\ START_HOUR * HourUnit <= fnResult[1][i]
              /\ fnResult[1][i] <= END_HOUR * HourUnit
              /\ (2 * fnResult[1][i]) % HourUnit = 0

\* an offset above the grid and one below it, on the lowest container
C18_Witness ==
    /\ fnResult = Some(<<START_HOUR * HourUnit, END_HOUR * HourUnit>>)
    /\ fnArgs.height = 2 * VERTICAL_PADDING + 1
    /\ fnArgs.y1 < 0 /\ fnArgs.y2 > fnArgs.height

(***************************************************************************)
(* snapTo30Min applied to every time of the day, once and twice.           *)
(***************************************************************************)
SnapTimes == {<<h, m>> : h \in 0..23, m \in 0..59}

InitSnap ==
    /\ lastOp = <<"init", None>>
    /\ gridHeight = GridHeight
    /\ AppIdle /\ FormUnmounted /\ CalIdle
    /\ emitted = NoEmission /\ alerted = ""
    /\ fnArgs \in [timeStr : SnapTimes]
    /\ fnResult = None

ApplySnapTo30Min ==
    /\ lastOp' = <<"ApplySnapTo30Min", None>>
    /\ fnResult = None
    /\ fnResult' = Some([once |-> snapTo30Min(fnArgs.timeStr),
                         twice |-> snapTo30Min(snapTo30Min(fnArgs.timeStr))])
    /\ UNCHANGED <<appVars, form, calVars, emitted, alerted, fnArgs>>

NextSnap == ApplySnapTo30Min

SpecSnap == InitSnap /\ [][NextSnap]_vars

\* C19: snapTo30Min is idempotent on every HH:mm time from 00:00 to 23:59:
\* snap(snap(t)) = snap(t); snap(t) has minutes 00 or 30 and an hour of at
\* most 23
C19_SnapIdempotent ==
    fnResult # None =>
        /\ fnResult[1].twice = fnResult[1].once
        /\ fnResult[1].once[2] \in {0, 30}
        /\ fnResult[1].once[1] \in 0..23

\* 23:45 carries into the next hour and is capped at 23:00
C19_Witness ==
    /\ fnArgs = [timeStr |-> <<23, 45>>]
    /\ fnResult = Some([once |-> <<23, 0>>, twice |-> <<23, 0>>])

(***************************************************************************)
(* calculateShiftHours applied to every pair of times start < end inside   *)
(* the operating window, by itself, by the form's submit (whose selects    *)
(* hold half hours) and by the single-shift paste of a template.           *)
(***************************************************************************)
WindowTimes ==
    {t \in {<<h, m>> : h \in START_HOUR..END_HOUR, m \in 0..59} : Minutes(t) <= END_HOUR * 60}
FormWindowTimes == {t \in WindowTimes : t[2] \in {0, 30}}
TemplateTimes == {t \in WindowTimes : t[2] \in {0, 1, 20, 30, 59}}

InitHours ==
    /\ lastOp = <<"init", None>>
    /\ gridHeight = GridHeight
    /\ CalIdle
    /\ emitted = NoEmission /\ alerted = ""
    /\ store = {} /\ nextDocId = 1 /\ shifts = {}
    /\ inflight = {} /\ syncing = FALSE
    /\ editingShift = None /\ prefilledData = EmptyPrefill
    /\ copiedWeekDate = None
    /\ fnResult = None
    /\ \/ /\ currentUser = "none" /\ writesLeft = 0
          /\ isModalOpen = FALSE /\ form = UnmountedForm /\ copiedShift = None
          /\ \E s \in WindowTimes, e \in WindowTimes :
                Minutes(s) < Minutes(e) /\ fnArgs = Some([start |-> s, end |-> e])
       \/ /\ currentUser = "admin" /\ writesLeft = MaxEditWrites
          /\ isModalOpen = TRUE /\ copiedShift = None /\ fnArgs = None
          /\ \E s \in FormWindowTimes, e \in FormWindowTimes :
                /\ Minutes(s) < Minutes(e)
                /\ form = [employeeId |-> FirstEmployee, date |-> Today,
                           startTime |-> s, endTime |-> e, error |-> ""]
       \/ /\ currentUser = "admin" /\ writesLeft = MaxEditWrites
          /\ isModalOpen = FALSE /\ form = UnmountedForm /\ fnArgs = None
          /\ \E s \in TemplateTimes, e \in TemplateTimes :
                /\ Minutes(s) < Minutes(e)
                /\ copiedShift = Some([employeeId |-> FirstEmployee,
                                       startTime |-> s, endTime |-> e])

ApplyCalculateShiftHours ==
    /\ lastOp' = <<"ApplyCalculateShiftHours", None>>
    /\ fnArgs # None /\ fnResult = None
    /\ fnResult' = Some(calculateShiftHours(fnArgs[1].start, fnArgs[1].end))
    /\ UNCHANGED <<appVars, form, calVars, emitted, alerted, fnArgs>>

NextHours ==
    \/ ApplyCalculateShiftHours
    \/ handleSubmit
    \/ handlePasteShift(Today)

SpecHours == InitHours /\ [][NextHours]_vars

InWindow(st, en) ==
    /\ IsTimeString(st) /\ IsTimeString(en)
    /\ START_HOUR * 60 <= Minutes(st) /\ Minutes(st) < Minutes(en)
    /\ Minutes(en) <= END_HOUR * 60

\* C20: for all times start < end within [08:00, 23:00], calculateShiftHours
\* (start, end) is the number of minutes from start to end divided by 60 and
\* rounded to two decimals, and the shift a form submit or a single-shift
\* paste sends carries that value as its hours
C20_ShiftHours ==
    [][/\ fnResult' # None =>
             fnResult'[1] = StatedHours(fnArgs[1].start, fnArgs[1].end)
       /\ lastOp'[1] \in {"handleSubmit", "handlePasteShift"} =>
             \A r \in inflight' \ inflight :
                InWindow(r.data.startTime, r.data.endTime) =>
                    r.data.hours = StatedHours(r.data.startTime, r.data.endTime)]_vars

\* a template of 08:01-22:59 pasted: 898 minutes, 14.97 hours
C20_Witness ==
    /\ lastOp[1] = "handlePasteShift"
    /\ \E r \in inflight :
          /\ r.kind = "addDoc"
          /\ r.data.startTime = <<8, 1>> /\ r.data.endTime = <<22, 59>>
          /\ r.data.hours = 1497

(***************************************************************************)
(* WeeklyCalendar.tsx, renderShiftsForDay: the day's shifts are sorted by  *)
(* startTime (Array.prototype.sort is stable, localeCompare on zero-padded *)
(* "HH:mm" is the order on pairs) and packed into columns.                 *)
(***************************************************************************)
\* a.localeCompare(b) <= 0 and a >= b on "HH:mm" strings
StrLeq(a, b) == a[1] < b[1] \/ (a[1] = b[1] /\ a[2] <= b[2])
StrGeq(a, b) == StrLeq(b, a)

\* [...dayShifts].sort((a, b) => a.startTime.localeCompare(b.startTime))
RECURSIVE sortByStartTime(_)
sortByStartTime(list) ==
    IF list = <<>> THEN <<>>
    ELSE LET sorted == sortByStartTime(SubSeq(list, 1, Len(list) - 1))
             x == list[Len(list)]
             keep == {i \in 1..Len(sorted) : StrLeq(sorted[i].startTime, x.startTime)}
             n == Cardinality(keep)
         IN  SubSeq(sorted, 1, n) \o <<x>> \o SubSeq(sorted, n + 1, Len(sorted))

\* one pass of the forEach body: the first column whose last shift has ended
placeShift(columns, shift) ==
    LET fits == {i \in 1..Len(columns) :
                    StrGeq(shift.startTime, columns[i][Len(columns[i])].endTime)}
    IN  IF fits = {} THEN Append(columns, <<shift>>)
        ELSE LET c == CHOOSE i \in fits : \A j \in fits : i <= j
             IN  [columns EXCEPT ![c] = Append(@, shift)]

\* a pass that looks at the last column only
placeShiftNextFit(columns, shift) ==
    IF columns # <<>>
       /\ StrGeq(shift.startTime, columns[Len(columns)][Len(columns[Len(columns)])].endTime)
    THEN [columns EXCEPT ![Len(columns)] = Append(@, shift)]
    ELSE Append(columns, <<shift>>)

\* a pass that compares with the start of the column's last shift
placeShiftByStart(columns, shift) ==
    LET fits == {i \in 1..Len(columns) :
                    StrGeq(shift.startTime, columns[i][Len(columns[i])].startTime)}
    IN  IF fits = {} THEN Append(columns, <<shift>>)
        ELSE LET c == CHOOSE i \in fits : \A j \in fits : i <= j
             IN  [columns EXCEPT ![c] = Append(@, shift)]

RECURSIVE packInOrder(_, _)
packInOrder(columns, rest) ==
    IF rest = <<>> THEN columns
    ELSE packInOrder(placeShift(columns, rest[1]), Tail(rest))

RECURSIVE packInOrderNextFit(_, _)
packInOrderNextFit(columns, rest) ==
    IF rest = <<>> THEN columns
    ELSE packInOrderNextFit(placeShiftNextFit(columns, rest[1]), Tail(rest))

RECURSIVE packInOrderByStart(_, _)
packInOrderByStart(columns, rest) ==
    IF rest = <<>> THEN columns
    ELSE packInOrderByStart(placeShiftByStart(columns, rest[1]), Tail(rest))

\* packings that are not the first fit over the sorted list
packDayNextFit(dayShifts) == packInOrderNextFit(<<>>, sortByStartTime(dayShifts))
packDayByStart(dayShifts) == packInOrderByStart(<<>>, sortByStartTime(dayShifts))
packDayUnsorted(dayShifts) == packInOrder(<<>>, dayShifts)

\* the columns renderShiftsForDay builds
packDay(dayShifts) == packInOrder(<<>>, sortByStartTime(dayShifts))

\* the blocks it returns: width = 100 / columns.length and left = colIdx *
\* width, in percent, each as the fraction <<numerator, denominator>>
renderShiftsForDay(dayShifts) ==
    LET columns == packDay(dayShifts)
    IN  [columns |-> columns,
         blocks |-> UNION {{[id |-> columns[c][k].id,
                             width |-> <<100, Len(columns)>>,
                             left |-> <<(c - 1) * 100, Len(columns)>>] :
                               k \in 1..Len(columns[c])} : c \in 1..Len(columns)}]

\* shifts a day shows at once
MaxPack == 3

\* the day's shifts in the order of the shifts prop: every interval with
\* start < end between these times, the shift at position i has id i
PackTimes == {<<9, 0>>, <<9, 30>>, <<10, 0>>, <<10, 30>>, <<11, 0>>}
PackIntervals == {iv \in PackTimes \X PackTimes : Minutes(iv[1]) < Minutes(iv[2])}
PackInputs(max) ==
    UNION {{[i \in 1..n |-> Shift(i, "e1", Jan09, f[i][1], f[i][2])] :
               f \in [1..n -> PackIntervals]} : n \in 0..max}

InitPack ==
    /\ lastOp = <<"init", None>>
    /\ gridHeight = GridHeight
    /\ AppIdle /\ FormUnmounted /\ CalIdle
    /\ emitted = NoEmission /\ alerted = ""
    /\ fnArgs \in PackInputs(MaxPack)
    /\ fnResult = None

ApplyRenderShiftsForDay ==
    /\ lastOp' = <<"ApplyRenderShiftsForDay", None>>
    /\ fnResult = None
    /\ fnResult' = Some(renderShiftsForDay(fnArgs))
    /\ UNCHANGED <<appVars, form, calVars, emitted, alerted, fnArgs>>

NextPack == ApplyRenderShiftsForDay

SpecPack == InitPack /\ [][NextPack]_vars

\* the stated order: by start time ascending, ties in their original order
\* (position i of the input has id i)
StatedBefore(a, b) ==
    \/ Minutes(a.startTime) < Minutes(b.startTime)
    \/ Minutes(a.startTime) = Minutes(b.startTime) /\ a.id < b.id

\* the shifts of a column placed before shift x, and the column's last such
PlacedBefore(column, x) == {k \in 1..Len(column) : StatedBefore(column[k], x)}
Qualifies(column, x) ==
    LET before == PlacedBefore(column, x)
    IN  /\ before # {}
        /\ \A k \in before :
              (\A j \in before : StatedBefore(column[j], column[k]) \/ j = k)
                  => Minutes(column[k].endTime) <= Minutes(x.startTime)

ExampleA == Shift(1, "e1", Jan09, <<9, 0>>, <<10, 0>>)
ExampleB == Shift(2, "e1", Jan09, <<9, 30>>, <<10, 30>>)
ExampleC == Shift(3, "e1", Jan09, <<10, 0>>, <<11, 0>>)

\* C21: packDay is first-fit over the shifts in the stated order: within a
\* column the shifts follow that order, every shift is in the lowest-index
\* column that qualified when it was placed (the column's last shift so far
\* ends at or before its start), and it opens a column only when none
\* qualified; A(09:00-10:00), B(09:30-10:30), C(10:00-11:00) give [[A,C],[B]],
\* width 100/2 and left = columnIndex * width
C21_FirstFit ==
    fnResult # None =>
        LET columns == fnResult[1].columns
        IN  /\ \A c \in 1..Len(columns) :
                  /\ columns[c] # <<>>
                  /\ \A k \in 2..Len(columns[c]) :
                        StatedBefore(columns[c][k - 1], columns[c][k])
                  /\ \A k \in 1..Len(columns[c]) :
                        LET x == columns[c][k]
                        IN  /\ \A b \in 1..(c - 1) : ~Qualifies(columns[b], x)
                            /\ k > 1 => Qualifies(columns[c], x)
                            /\ k = 1 => \A b \in 1..(c - 1) : PlacedBefore(columns[b], x) # {}
            /\ \A blk \in fnResult[1].blocks :
                  \E c \in 1..Len(columns) :
                      /\ \E k \in 1..Len(columns[c]) : columns[c][k].id = blk.id
                      /\ blk.width = <<100, Len(columns)>>
                      /\ blk.left = <<(c - 1) * blk.width[1], blk.width[2]>>
            /\ fnArgs = <<ExampleA, ExampleB, ExampleC>> =>
                  /\ columns = <<<<ExampleA, ExampleC>>, <<ExampleB>>>>
                  /\ fnResult[1].blocks =
                        { [id |-> 1, width |-> <<100, 2>>, left |-> <<0, 2>>],
                          [id |-> 3, width |-> <<100, 2>>, left |-> <<0, 2>>],
                          [id |-> 2, width |-> <<100, 2>>, left |-> <<100, 2>>] }

C21_Witness ==
    /\ fnArgs = <<ExampleA, ExampleB, ExampleC>>
    /\ fnResult # None
    /\ fnResult[1].columns = <<<<ExampleA, ExampleC>>, <<ExampleB>>>>

\* the most shifts of a list active at one instant (an instant at which the
\* most are active is the start of one of them)
Depth(list) ==
    LET active(t) == {i \in 1..Len(list) :
                        /\ Minutes(list[i].startTime) <= Minutes(t)
                        /\ Minutes(t) < Minutes(list[i].endTime)}
        counts == {Cardinality(active(list[i].startTime)) : i \in 1..Len(list)}
    IN  IF list = <<>> THEN 0 ELSE CHOOSE n \in counts : \A m \in counts : m <= n

\* C24 as stated: among the lists of same-day shifts with start < end there
\* is one that packDay packs into more columns than the most shifts active
\* at one instant
C24_Original ==
    fnResult # None =>
        \E list \in PackInputs(MaxPack) : Len(packDay(list)) > Depth(list)

\* C24: packDay is deterministic (the result is a function of the input
\* list) and, for shifts with start < end, it opens exactly as many columns
\* as the most shifts active at one instant, the minimum number of columns
C24_Amended ==
    fnResult # None =>
        /\ fnResult[1] = renderShiftsForDay(fnArgs)
        /\ Len(fnResult[1].columns) = Depth(fnArgs)

\* three shifts, two of them active at any instant, in two columns
C24_Witness ==
    /\ fnArgs = << Shift(1, "e1", Jan09, <<9, 0>>, <<10, 0>>),
                   Shift(2, "e1", Jan09, <<9, 0>>, <<11, 0>>),
                   Shift(3, "e1", Jan09, <<10, 0>>, <<11, 0>>) >>
    /\ fnResult # None
    /\ Len(fnResult[1].columns) = 2

\* C25: packDay's output is a partition without overlaps: every input shift
\* is in exactly one column exactly once, and of any two shifts in a column
\* one ends at or before the other starts
C25_Partition ==
    fnResult # None =>
        LET columns == fnResult[1].columns
            places == {<<c, k>> \in (1..Len(columns)) \X (1..Len(fnArgs)) :
                          k <= Len(columns[c])}
        IN  /\ \A i \in 1..Len(fnArgs) :
                  Cardinality({p \in places : columns[p[1]][p[2]] = fnArgs[i]}) = 1
            /\ Cardinality(places) = Len(fnArgs)
            /\ \A c \in 1..Len(columns) :
                  \A j, k \in 1..Len(columns[c]) :
                      j # k =>
                          \/ Minutes(columns[c][j].endTime) <= Minutes(columns[c][k].startTime)
                          \/ Minutes(columns[c][k].endTime) <= Minutes(columns[c][j].startTime)

\* two identical shifts and one that follows them: two columns, three places
C25_Witness ==
    /\ fnArgs = << Shift(1, "e1", Jan09, <<10, 0>>, <<11, 0>>),
                   Shift(2, "e1", Jan09, <<9, 0>>, <<10, 0>>),
                   Shift(3, "e1", Jan09, <<9, 0>>, <<10, 0>>) >>
    /\ fnResult # None
    /\ fnResult[1].columns = << <<fnArgs[2], fnArgs[1]>>, <<fnArgs[3]>> >>

(***************************************************************************)
(* Bounds of the candidate.                                                *)
(***************************************************************************)
\* C22: after every pointer-move in an Interacting session (any type, any
\* anchor, any pointer position) the candidate has 8 <= start <= 22.5,
\* 8.5 <= end <= 23 and end >= start + 0.5
C22_CandidateBounds ==
    [][(\E type \in InteractionTypes : CandidateStep(type)) =>
          LET start == Minutes(tempShift'[1].startTime)
              end == Minutes(tempShift'[1].endTime)
          IN  /\ START_HOUR * 60 <= start /\ start <= END_HOUR * 60 - 30
              /\ START_HOUR * 60 + 30 <= end /\ end <= END_HOUR * 60
              /\ end >= start + 30]_vars

(***************************************************************************)
(* The window's pointer-release listener.                                  *)
(***************************************************************************)
\* C23: the pointer-release listener is attached exactly while a session is
\* active: attached when a session starts, detached when it ends, and not
\* attached while the controller is Idle
C23_ListenerScoped == mouseupListenerAttached <=> ~IdleSession

(***************************************************************************)
(* Roles: the admin and a staff member use the same page one after the     *)
(* other; the staff member reaches every handler that writes.              *)
(***************************************************************************)
\* the log-out button of the header: setCurrentUser(null).  The login screen
\* replaces the page; the other state of App stays as it is
Logout ==
    /\ lastOp' = <<"Logout", None>>
    /\ PageReachable /\ NoSession
    /\ currentUser' = "none"
    /\ Quiet
    /\ UNCHANGED <<store, nextDocId, shifts, inflight, writesLeft, syncing, isModalOpen,
                   editingShift, prefilledData, copiedShift, copiedWeekDate>>
    /\ UNCHANGED <<form, calVars, fnVars>>

WriteHandlers == {"saveShift", "deleteShift", "handlePasteShift", "handlePasteWeek"}

\* a call of one of the four handlers by a user who is not the admin: the
\* first statement returns
RoleReturn(handler) ==
    /\ lastOp' = <<handler, None>>
    /\ currentUser # "none" /\ ~mayWrite
    /\ Quiet
    /\ UNCHANGED <<appVars, form, calVars, fnVars>>

InitRoles == InitApp(EditSeed, MaxEditWrites)

NextRoles ==
    \/ NextEdit
    \/ Logout
    \/ \E w \in {Jan07, Jan14} : handleCopyWeek(parseISO(w))
    \/ \E w \in {Jan07, Jan14} : handlePasteWeek(parseISO(w), TRUE)
    \/ \E handler \in WriteHandlers : RoleReturn(handler)

SpecRoles == InitRoles /\ [][NextRoles]_vars

\* C26: in every step taken while the current user is not the admin no write
\* is issued (no call is added to the pending calls and none is counted), the
\* calendar emits no save and no create request, and no drag session exists:
\* whatever the staff member presses, and whichever of saveShift, deleteShift,
\* handlePasteShift and handlePasteWeek is called, with the admin's copied
\* shift and copied week still in place.
C26_NoWriteUnlessAdmin ==
    [][currentUser # "admin" =>
          /\ inflight' \subseteq inflight
          /\ writesLeft' = writesLeft
          /\ emitted' = NoEmission
          /\ IdleSession']_vars

\* a staff member called handlePasteWeek while the copied week and the copied
\* shift of the admin before them are set and a write is still possible
C26_Witness ==
    /\ currentUser = "staff"
    /\ lastOp = <<"handlePasteWeek", None>>
    /\ copiedWeekDate # None /\ copiedShift # None
    /\ writesLeft > 0

(***************************************************************************)
(* A snapshot that removes the anchor during an interaction (SpecDrag).    *)
(***************************************************************************)
AnchorRemoved ==
    InteractingSession /\ ~\E s \in shifts : s.id = tempShift[1].id

\* C27: when the live list no longer holds the anchor shift at the pointer-up
\* that ends an interaction on it, the pointer-up emits no update-request,
\* nothing at all for the shift (the only request it can emit is the
\* create-request of a create-drag open at the same time, which carries no
\* shift), issues no write, and leaves every session field idle.
C27_RemovedAnchorSilent ==
    [][(lastOp'[1] = "handleGlobalMouseUp" /\ AnchorRemoved) =>
          /\ SaveCalls(emitted') = {}
          /\ ~SelectingSession => emitted' = NoEmission
          /\ inflight' = inflight
          /\ IdleSession']_vars

\* the snapshot has just removed shift 1 while it is being moved and its
\* candidate has left the shift's times
C27_Witness ==
    /\ lastOp[1] = "ShiftsSnapshot"
    /\ AnchorRemoved
    /\ activeShiftId = Some(1) /\ interactionType = "move"
    /\ tempShift[1].startTime # SeedA.startTime

(***************************************************************************)
(* A move that reaches outside the window (SpecFine).                      *)
(***************************************************************************)
\* start and end of the moved shift before the clamps, in hour units
MoveRawStart == getHourFromY(lastOp'[2][1], gridHeight) - interactionOffset
MoveRawEnd ==
    MoveRawStart + (interactionInitialHours[1].end - interactionInitialHours[1].start)

PastTop == MoveRawStart < START_HOUR * HourUnit
PastBottom == MoveRawEnd > END_HOUR * HourUnit
MoveOutside == CandidateStep("move") /\ (PastTop \/ PastBottom)

\* how far the unclamped shift reaches out of the window
Overshoot ==
    IF PastTop THEN START_HOUR * HourUnit - MoveRawStart
    ELSE MoveRawEnd - END_HOUR * HourUnit

OriginalMinutes ==
    MinutesOfHour(interactionInitialHours[1].end)
        - MinutesOfHour(interactionInitialHours[1].start)
CandidateMinutes == Minutes(tempShift'[1].endTime) - Minutes(tempShift'[1].startTime)

\* the time string t is the minute next to the decimal hour h
WithinAMinute(t, h) ==
    /\ Minutes(t) * HourUnit - h * 60 < HourUnit
    /\ h * 60 - Minutes(t) * HourUnit < HourUnit

\* C28 as stated: a move that would place the shift partly outside [8, 23]
\* does not preserve its duration: past the top the start is 08:00 and the
\* end is max(8.5, unclamped end); past the bottom the start is at most 22:30
\* and the end is 23:00; the duration is then shorter than the original, at
\* least half an hour and not longer than the original.
C28_Original ==
    [][MoveOutside =>
          /\ PastTop =>
                /\ Minutes(tempShift'[1].startTime) = 8 * 60
                /\ NamesHour(tempShift'[1].endTime,
                             Max(START_HOUR * HourUnit + HalfHour, MoveRawEnd))
          /\ PastBottom =>
                /\ Minutes(tempShift'[1].startTime) <= 22 * 60 + 30
                /\ Minutes(tempShift'[1].endTime) = 23 * 60
          /\ CandidateMinutes < OriginalMinutes
          /\ CandidateMinutes >= 30
          /\ CandidateMinutes <= OriginalMinutes]_vars

\* C28 (amended): for a shift at least half an hour long, a move that would
\* place it partly outside [8, 23] clamps start and end independently: past
\* the top the start is 08:00 and the end is the minute of max(8.5, unclamped
\* end); past the bottom the start is at most 22:30 and the end is 23:00.  The
\* candidate is never longer than the original and never shorter than half an
\* hour; it is shorter than the original when the original is longer than
\* half an hour and the unclamped shift reaches out of the window by a minute
\* or more.
C28_Amended ==
    [][(MoveOutside /\ OriginalMinutes >= 30) =>
          /\ PastTop =>
                /\ Minutes(tempShift'[1].startTime) = 8 * 60
                /\ WithinAMinute(tempShift'[1].endTime,
                                 Max(START_HOUR * HourUnit + HalfHour, MoveRawEnd))
          /\ PastBottom =>
                /\ Minutes(tempShift'[1].startTime) <= 22 * 60 + 30
                /\ Minutes(tempShift'[1].endTime) = 23 * 60
          /\ CandidateMinutes >= 30
          /\ CandidateMinutes <= OriginalMinutes
          /\ (OriginalMinutes > 30 /\ Overshoot * 60 >= HourUnit)
                => CandidateMinutes < OriginalMinutes]_vars

\* the shift of 09:00-10:00 dragged to the last row: its end would pass
\* 23:00 and the candidate is 22:30-23:00
C28_Witness ==
    /\ lastOp = <<"handleMouseMove", Some(73)>>
    /\ ~isSelecting /\ interactionType = "move"
    /\ interactionInitialHours # None
    /\ MinutesOfHour(interactionInitialHours[1].start) = 9 * 60
    /\ tempShift = Some([FineNine EXCEPT !.startTime = <<22, 30>>,
                                         !.endTime = <<23, 0>>, !.hours = 50])

(***************************************************************************)
(* The end of saveShift (SpecEdit).                                        *)
(***************************************************************************)
WriteCompletions == {"WriteSucceeds", "WriteFails"}

\* the calls of saveShift that finish in this step
SavesFinished == {r \in inflight \ inflight' : r.origin = "saveShift"}

\* C29: when the write of a saveShift finishes, the form is closed and
\* editingShift and the prefilled data are cleared (and the syncing flag is
\* off), whether the write succeeded or failed; a failed write leaves the
\* store as it was.
C29_SaveClosesForm ==
    [][(lastOp'[1] \in WriteCompletions /\ SavesFinished # {}) =>
          /\ ~isModalOpen'
          /\ editingShift' = None
          /\ prefilledData' = EmptyPrefill
          /\ form' = UnmountedForm
          /\ ~syncing'
          /\ lastOp'[1] = "WriteFails" => store' = store]_vars

\* a write of saveShift has succeeded (the store holds a shift that is neither
\* a seed shift nor a pasted copy of one, whose hours are the seed's), and the
\* form is closed
C29_Witness ==
    /\ lastOp[1] = "WriteSucceeds"
    /\ ~isModalOpen /\ editingShift = None /\ prefilledData = EmptyPrefill
    /\ form = UnmountedForm
    /\ \E d \in store : d \notin EditSeed /\ d.hours # EditA.hours

(***************************************************************************)
(* The end of a create-drag (SpecDrag).                                    *)
(***************************************************************************)
CreateCalls(calls) == {i \in DOMAIN calls : calls[i].cb = "onAddShift"}

\* C30: a create-drag ends only at a pointer-up, and the pointer-up that ends
\* it emits exactly one create-request: for a drag of zero extent one
\* onAddShift of the day without times, for an extent of half an hour or more
\* one onAddShift with the times of the smaller and the larger hour; the
\* extent is never between the two, so no create-drag ends without a request
\* and none emits two.
C30_OneCreateRequest ==
    [][(SelectingSession /\ ~SelectingSession') =>
          LET start == Min(dragStartHour[1], dragCurrentHour[1])
              end == Max(dragStartHour[1], dragCurrentHour[1])
          IN  /\ lastOp'[1] = "handleGlobalMouseUp"
              /\ Cardinality(CreateCalls(emitted')) = 1
              /\ \A i \in CreateCalls(emitted') :
                    /\ emitted'[i].date = dragDay
                    /\ IF end = start
                       THEN emitted'[i].startTime = NoField /\ emitted'[i].endTime = NoField
                       ELSE /\ end - start >= HalfHour
                            /\ NamesHour(emitted'[i].startTime, start)
                            /\ NamesHour(emitted'[i].endTime, end)
              /\ ~isSelecting' /\ dragDay' = None
              /\ dragStartHour' = None /\ dragCurrentHour' = None]_vars

\* a press and release on the grid of 2024-01-10 without a move between them
\* has ended with the one request for the day, without times
C30_Witness ==
    /\ lastOp[1] = "handleGlobalMouseUp"
    /\ IdleSession
    /\ emitted = <<AddShiftCall(Jan10, NoField, NoField)>>

====
